---- MODULE Spec2Model ----
(***************************************************************************)
(* A model of the Kali compiler front end: the hand-written indentation    *)
(* lexer of kali-parse, the structural types of kali-type with their       *)
(* unification, resolution and monotype test, and the inference context    *)
(* with the typing rules of identifiers and function declarations.         *)
(***************************************************************************)
EXTENDS Integers, Sequences, FiniteSets, TLC

VARIABLES
    input,      \* Lexer.input, a sequence of one-byte characters
    lexer,      \* the mutable fields of Lexer
    tokens,     \* the results of the token() calls made so far
    self_ty,    \* Type::unify: self
    other_ty,   \* Type::unify: other
    context,    \* Type::unify: the InferenceContext, as the map variable() reads
    unified,    \* the result of the last Type operation applied to the inputs
    scope,      \* Context.scope, a stack of known-name maps
    counter,    \* Context.counter
    inferred,   \* Context.inferred
    pc,         \* the position of the statement being typed
    decl,       \* the function declaration being typed
    ret,        \* the result of the last Context operation
    saved,      \* history: what get_known gave for each name at each open push
    issued,     \* history: the ids declare_inferred has returned so far
    errors,     \* TypeInferenceError::combine: the errors a, b and c
    combined,   \* the results of combining them in the two groupings
    tree,       \* the Module handed to Rewriter::rewrite
    rewritten,  \* the result of rewriting it, with the nodes visited in order
    written,    \* the branches of a match expression as the source lists them
    matched,    \* the branches of the Match built from them, then rewritten
    source_ops, \* the binary operators of an expression, in source order
    parsed,     \* the trees the two expression parsers build for it
    literal,    \* an integer literal: its sign, prefix and digits
    lexed,      \* what a lexer made of the literal
    shown,      \* an expression, then its printed text and the text parsed
    code,       \* an expression and the instructions compiled from it
    machine,    \* the Runtime executing them: pc, stack, executed places
    walk        \* a module, then the nodes a Walker handed to the visitor

vars == <<input, lexer, tokens, self_ty, other_ty, context, unified,
          scope, counter, inferred, pc, decl, ret, saved, issued,
          errors, combined, tree, rewritten, written, matched,
          source_ops, parsed, literal, lexed, shown, code, machine, walk>>

lexerVars == <<input, lexer, tokens>>
typeVars == <<self_ty, other_ty, context, unified>>
ctxVars == <<scope, counter, inferred, pc, decl, ret>>
histVars == <<saved, issued>>
errVars == <<errors, combined>>
astVars == <<tree, rewritten>>
matchVars == <<written, matched>>
precVars == <<source_ops, parsed>>
parseVars == <<matchVars, precVars>>
intVars == <<literal, lexed>>
printVars == <<shown>>
vmVars == <<code, machine>>
walkVars == <<walk>>
lateVars == <<intVars, printVars, vmVars, walkVars>>
restVars == <<histVars, errVars, astVars, parseVars, lateVars>>

(***************************************************************************)
(* Bounds.                                                                 *)
(***************************************************************************)
MaxLen == 5         \* the longest input handed to the lexer
MaxCalls == 6       \* the number of token() calls made on one input

Max(S) == CHOOSE m \in S : \A n \in S : n <= m

(***************************************************************************)
(* kali-parse/src/lexer.rs                                                 *)
(***************************************************************************)
Alphabet == {"f", "n", "\n", "\t", " ", "-"}

\* Option::None of the lexer helpers
NoText == <<>>

Tok(kind, text) == [kind |-> kind, text |-> text]
None == Tok("None", NoText)

\* Lexer::new
NewLexer ==
    [position |-> 0, chars |-> 0, indent |-> 0, indent_space |-> FALSE,
     indent_spaces_count |-> 0, backtrack |-> 0]

\* self.chars.peek(): the character under the character cursor
Peek(L) == IF L.chars < Len(input) THEN input[L.chars + 1] ELSE "EOF"

\* c.len_utf8(); the alphabet is ASCII
LenUtf8(c) == 1

\* position += c.len_utf8(); chars.next()  -- n times
Advance(L, n) == [L EXCEPT !.position = @ + n, !.chars = @ + n]

\* Lexer::restore: the cursor is rebuilt from the CURRENT position, and only
\* then is the position set back.
restore(L, pos) ==
    [L EXCEPT !.backtrack = @ + 1, !.chars = L.position, !.position = pos]

\* the characters of the alphabet the predicates of the lexer accept
InlineWhitespace == {" ", "\t", "\r"}
XidStart == {"f", "n"}
XidContinue == {"f", "n"}
Spaces == {" "}
Tabs == {"\t"}

\* the number of characters from the cursor on that the predicate accepts
RunLength(L, accepted) ==
    Max({k \in 0..(Len(input) - L.chars) :
            \A j \in 1..k : input[L.chars + j] \in accepted})

\* Lexer::eat_while
eat_while(L, accepted) == Advance(L, RunLength(L, accepted))

\* Lexer::eat_inline_whitespace
eat_inline_whitespace(L) == eat_while(L, InlineWhitespace)

\* how many leading characters of string are found at the cursor
MatchLength(L, string) ==
    Max({k \in 0..Len(string) :
            /\ L.chars + k <= Len(input)
            /\ \A j \in 1..k : input[L.chars + j] = string[j]})

\* Lexer::eat_literal
eat_literal(L, string) ==
    LET start == L.position
        k == MatchLength(L, string)
    IN  IF k = Len(string)
        THEN [l |-> Advance(L, k), ok |-> TRUE]
        ELSE [l |-> restore(Advance(L, k), start), ok |-> FALSE]

\* how many of the n wanted copies of c are found at the cursor
RepeatLength(L, c, n) ==
    Max({k \in 0..n :
            /\ L.chars + k <= Len(input)
            /\ \A j \in 1..k : input[L.chars + j] = c})

\* Lexer::eat_exactly_n
eat_exactly_n(L, c, n) ==
    LET start == L.position
        k == RepeatLength(L, c, n)
    IN  IF k = n
        THEN [l |-> Advance(L, n), ok |-> TRUE]
        ELSE [l |-> restore(Advance(L, k), start), ok |-> FALSE]

\* Lexer::emit_while: the slice is cut out of the input by byte position
emit_while(L, accepted) ==
    LET start == L.position
        L1 == eat_while(L, accepted)
    IN  [l |-> L1,
         some |-> L1.position # start,
         text |-> SubSeq(input, start + 1, L1.position)]

\* the value of a call, computed once and then named: The({body : x \in {call}})
The(S) == CHOOSE x \in S : TRUE

\* Lexer::choose_literal: the loop over the choices from the i-th on
RECURSIVE choose_from(_, _, _, _)
choose_from(L, start, choices, i) ==
    IF i > Len(choices)
    THEN [l |-> L, some |-> FALSE, text |-> NoText]
    ELSE The({IF e.ok
              THEN [l |-> e.l, some |-> TRUE, text |-> choices[i]]
              ELSE choose_from(restore(e.l, start), start, choices, i + 1) :
              e \in {eat_literal(L, choices[i])}})

choose_literal(L, choices) == choose_from(L, L.position, choices, 1)

\* Lexer::identifier
identifier(L) ==
    LET start == L.position
    IN  IF Peek(L) \in XidStart
        THEN LET L1 == eat_while(Advance(L, 1), XidContinue)
             IN  [l |-> L1,
                  tok |-> Tok("Identifier", SubSeq(input, start + 1, L1.position))]
        ELSE [l |-> restore(L, start), tok |-> None]

Keywords ==
    << <<"i", "f">>, <<"e", "l", "s", "e">>, <<"m", "a", "t", "c", "h">>,
       <<"l", "e", "t">>, <<"f", "n">>, <<"w", "i", "t", "h">> >>

\* Lexer::keyword
keyword(L) ==
    The({[l |-> c.l, tok |-> IF c.some THEN Tok("Keyword", c.text) ELSE None] :
         c \in {choose_literal(L, Keywords)}})

Symbols ==
    << <<"(">>, <<")">>, <<"[">>, <<"]">>, <<"{">>, <<"}">>, <<"|">>,
       <<"-", ">">>, <<":">> >>

\* Lexer::symbol
symbol(L) ==
    The({[l |-> c.l, tok |-> IF c.some THEN Tok("Symbol", c.text) ELSE None] :
         c \in {choose_literal(L, Symbols)}})

Operators == << <<"+">>, <<"-">>, <<"*">>, <<"/">> >>

\* Lexer::operator
operator(L) ==
    The({[l |-> c.l, tok |-> IF c.some THEN Tok("Operator", c.text) ELSE None] :
         c \in {choose_literal(L, Operators)}})

Newlines == << <<"\n">>, <<"\r", "\n">> >>

\* the indentation start_block and end_block expect for a depth
eat_indentation(L, depth) ==
    IF L.indent_space
    THEN eat_exactly_n(L, " ", L.indent_spaces_count * depth)
    ELSE eat_exactly_n(L, "\t", depth)

\* start_block once the newline is eaten and indent == 0: the indentation
\* unit is learnt from the spaces or tabs that follow
first_indentation(L) ==
    The({[l |-> IF sp.some
                THEN [sp.l EXCEPT !.indent_space = TRUE,
                                  !.indent_spaces_count = Len(sp.text)]
                ELSE emit_while(sp.l, Tabs).l,
          tok |-> Tok("BlockStart", NoText)] :
         sp \in {emit_while(L, Spaces)}})

\* start_block once the newline is eaten and indent > 0
deeper_indentation(L, start) ==
    The({IF ~correct.ok
         THEN [l |-> restore(correct.l, start), tok |-> None]
         ELSE [l |-> correct.l, tok |-> Tok("BlockStart", NoText)] :
         correct \in {eat_indentation([L EXCEPT !.indent = @ + 1],
                                      L.indent + 1)}})

\* Lexer::start_block
start_block(L) ==
    The({IF ~nl.some
         THEN [l |-> restore(nl.l, L.position), tok |-> None]
         ELSE IF nl.l.indent = 0
         THEN first_indentation(nl.l)
         ELSE deeper_indentation(nl.l, L.position) :
         nl \in {choose_literal(L, Newlines)}})

\* end_block once the newline is eaten and indent > 0
shallower_indentation(L, start) ==
    The({IF ~correct.ok
         THEN [l |-> restore(correct.l, start), tok |-> None]
         ELSE [l |-> [correct.l EXCEPT !.indent = @ - 1],
               tok |-> Tok("BlockEnd", NoText)] :
         correct \in {eat_indentation(L, L.indent - 1)}})

\* Lexer::end_block
end_block(L) ==
    The({IF ~nl.some
         THEN [l |-> restore(nl.l, L.position), tok |-> None]
         ELSE IF nl.l.indent = 0
         THEN [l |-> nl.l, tok |-> None]
         ELSE shallower_indentation(nl.l, L.position) :
         nl \in {choose_literal(L, Newlines)}})

\* the i-th alternative of Lexer::token
alternative(L, i) ==
    CASE i = 1 -> end_block(L)
      [] i = 2 -> start_block(L)
      [] i = 3 -> keyword(L)
      [] i = 4 -> symbol(L)
      [] i = 5 -> operator(L)
      [] i = 6 -> identifier(L)

\* Option::or_else down the alternatives of Lexer::token: each runs on the
\* lexer the failed attempt before it left
RECURSIVE or_else(_, _)
or_else(r, i) ==
    IF r.tok # None \/ i > 6
    THEN r
    ELSE The({or_else(next, i + 1) : next \in {alternative(r.l, i)}})

\* Lexer::token
token(L) ==
    The({or_else(first, 2) :
         first \in {alternative(eat_inline_whitespace(L), 1)}})

Inputs == UNION {[1..n -> Alphabet] : n \in 0..MaxLen}

LexerIdle ==
    /\ input = <<>>
    /\ lexer = NewLexer
    /\ tokens = <<>>

TypeIdle ==
    /\ self_ty = [k |-> "Never"]
    /\ other_ty = [k |-> "Never"]
    /\ context = <<>>
    /\ unified = [op |-> "none"]

CtxIdle ==
    /\ scope = << <<>> >>
    /\ counter = 0
    /\ inferred = <<>>
    /\ pc = "idle"
    /\ decl = [name |-> "none"]
    /\ ret = [op |-> "none"]

HistIdle ==
    /\ saved = <<>>
    /\ issued = <<>>

ErrIdle ==
    /\ errors = <<>>
    /\ combined = [op |-> "none"]

AstIdle ==
    /\ tree = [imports |-> <<>>, exports |-> <<>>, stmts |-> <<>>]
    /\ rewritten = [op |-> "none"]

MatchIdle ==
    /\ written = <<>>
    /\ matched = [op |-> "none"]

PrecIdle ==
    /\ source_ops = <<>>
    /\ parsed = [op |-> "none"]

ParseIdle == MatchIdle /\ PrecIdle

IntIdle ==
    /\ literal = [prefix |-> "none"]
    /\ lexed = [op |-> "none"]

PrintIdle == shown = [op |-> "none"]

VmIdle ==
    /\ code = [op |-> "none"]
    /\ machine = [op |-> "none"]

WalkIdle == walk = [op |-> "none"]

LateIdle == IntIdle /\ PrintIdle /\ VmIdle /\ WalkIdle

RestIdle == HistIdle /\ ErrIdle /\ AstIdle /\ ParseIdle /\ LateIdle

\* Lexer::new(input)
LexerInit ==
    /\ input \in Inputs
    /\ lexer = NewLexer
    /\ tokens = <<>>
    /\ TypeIdle
    /\ CtxIdle
    /\ RestIdle

\* one call of lexer.token()
Token ==
    /\ Len(tokens) < MaxCalls
    /\ LET r == token(lexer)
       IN  /\ lexer' = r.l
           /\ tokens' = Append(tokens, r.tok)
    /\ UNCHANGED <<input, typeVars, ctxVars, restVars>>

LexerNext == Token

LexerSpec == LexerInit /\ [][LexerNext]_vars

\* the literals token() tries with eat_literal
Choices == Keywords \o Symbols \o Operators \o Newlines

\* C28: after a failed match attempt the recorded byte position and the
\* character cursor both refer to the offset where the attempt started: an
\* alternative of token() that yields no token, and an eat_literal made at
\* the cursor that fails, both leave position and cursor where they were.
C28_FailedAttemptRestores ==
    \A L \in {eat_inline_whitespace(lexer)} :
        /\ \A i \in 1..6 :
               \A r \in {alternative(L, i)} :
                   r.tok = None => /\ r.l.position = L.position
                                   /\ r.l.chars = L.chars
        /\ \A i \in 1..Len(Choices) :
               \A e \in {eat_literal(L, Choices[i])} :
                   ~e.ok => /\ e.l.position = L.position
                            /\ e.l.chars = L.chars

Kinds(ts) == [i \in 1..Len(ts) |-> ts[i].kind]
Count(ts, kind) == Cardinality({i \in 1..Len(ts) : ts[i].kind = kind})

\* the input is exhausted: the character cursor stands at its end
Exhausted == lexer.chars = Len(input)

\* the lexer has nothing more to give: the input is exhausted and the last
\* call returned None
Complete == Exhausted /\ tokens # <<>> /\ tokens[Len(tokens)] = None

\* C1: for every complete input the lexer has emitted as many BlockStart
\* tokens as BlockEnd tokens by the time the input is exhausted.
C1_Balanced ==
    Complete => Count(tokens, "BlockStart") = Count(tokens, "BlockEnd")

\* C2: a line, a newline, a line indented one unit deeper and a newline
\* yield the first line's token, BlockStart, the indented line's token and
\* BlockEnd, in that order.
C2_BlockOrder ==
    \A a, b \in {"f", "n"} : \A unit \in {"\t", " "} :
        (input = <<a, "\n", unit, b, "\n">> /\ Len(tokens) >= 4)
            => SubSeq(tokens, 1, 4) =
                   <<Tok("Identifier", <<a>>), Tok("BlockStart", NoText),
                     Tok("Identifier", <<b>>), Tok("BlockEnd", NoText)>>

(***************************************************************************)
(* kali-type/src/lib.rs: the semantic types                                *)
(***************************************************************************)
MaxId == 1          \* inference variables are Infer(0) .. Infer(MaxId)
MaxTupleLen == 2    \* the longest tuple among the input types
StackLimit == 12    \* the number of nested calls the stack has room for

Constant(c) == [k |-> "Constant", c |-> c]
Array(t) == [k |-> "Array", t |-> t]
Tuple(ts) == [k |-> "Tuple", ts |-> ts]
\* Record holds a BTreeMap: a function from the field names to their types
Record(fs) == [k |-> "Record", fs |-> fs]
Parameterized(name, ts) == [k |-> "Parameterized", name |-> name, ts |-> ts]
Lambda(ps, r) == [k |-> "Lambda", ps |-> ps, r |-> r]
Infer(id) == [k |-> "Infer", id |-> id]
Never == [k |-> "Never"]
Error == [k |-> "Error"]

Integer == Constant("Integer")
Bool == Constant("Bool")

\* the order in which a BTreeMap<String, _> iterates over its keys
FieldOrder == <<"a", "b">>
Keys(fs) == SelectSeq(FieldOrder, LAMBDA n : n \in DOMAIN fs)

\* a catch-all arm that answers true
is_monotype_other_true(t) == TRUE

\* Type::is_monotype: the catch-all arm answers false
is_monotype_other(t) == FALSE

\* Type::is_monotype
RECURSIVE is_monotype(_)
is_monotype(t) ==
    CASE t.k = "Constant" -> TRUE
      [] t.k = "Array" -> is_monotype(t.t)
      [] t.k = "Tuple" -> \A i \in 1..Len(t.ts) : is_monotype(t.ts[i])
      [] t.k = "Record" -> \A n \in DOMAIN t.fs : is_monotype(t.fs[n])
      [] t.k = "Parameterized" -> \A i \in 1..Len(t.ts) : is_monotype(t.ts[i])
      [] t.k = "Lambda" ->
            (\A i \in 1..Len(t.ps) : is_monotype(t.ps[i])) /\ is_monotype(t.r)
      [] OTHER -> is_monotype_other(t)

(***************************************************************************)
(* kali-type/src/unify.rs                                                  *)
(***************************************************************************)
Ok(t) == [status |-> "Ok", ty |-> t]
MismatchedLength(n, m) == [status |-> "MismatchedLength", lens |-> <<n, m>>]
MismatchedFields(msg) == [status |-> "MismatchedFields", msg |-> msg]
\* the recursion ran out of stack
StackOverflow == [status |-> "StackOverflow"]

\* InferenceContext::variable: the type recorded for an inference variable
variable(ctx, name) ==
    IF name \in DOMAIN ctx THEN [some |-> TRUE, ty |-> ctx[name]]
    ELSE [some |-> FALSE]

\* the or-pattern (Type::Infer(name), x) | (x, Type::Infer(name)): the first
\* alternative that matches binds name and x
infer_arm(self, other) ==
    IF self.k = "Infer" THEN [name |-> self.id, x |-> other]
    ELSE [name |-> other.id, x |-> self]

\* a last arm that forgets to compare the two types
unify_equal_unchecked(x, y) == Ok(x)

\* the last arm of Type::unify: the types must be equal
unify_equal(x, y) ==
    IF x = y THEN Ok(x) ELSE MismatchedFields(<<x, y>>)

\* Type::unify when the variable of the Infer arm has no recorded type
unify_unbound(x) == Ok(x)

RECURSIVE unify(_, _, _, _)
RECURSIVE unify_tuple(_, _, _, _, _, _)
RECURSIVE unify_record(_, _, _, _, _, _)

\* Type::unify; depth counts the calls on the stack
unify(self, other, ctx, depth) ==
    IF depth > StackLimit THEN StackOverflow
    ELSE IF self.k = "Infer" \/ other.k = "Infer"
    THEN LET arm == infer_arm(self, other)
             a == variable(ctx, arm.name)
         IN  IF a.some THEN unify(a.ty, arm.x, ctx, depth + 1)
             ELSE unify_unbound(arm.x)
    ELSE IF self.k = "Array" /\ other.k = "Array"
    THEN LET t == unify(self.t, other.t, ctx, depth + 1)
         IN  IF t.status = "Ok" THEN Ok(Array(t.ty)) ELSE t
    ELSE IF self.k = "Tuple" /\ other.k = "Tuple"
    THEN IF Len(self.ts) # Len(other.ts)
         THEN MismatchedLength(Len(self.ts), Len(other.ts))
         ELSE unify_tuple(self.ts, other.ts, ctx, depth, 1, <<>>)
    ELSE IF self.k = "Record" /\ other.k = "Record"
    THEN IF Len(Keys(self.fs)) # Len(Keys(other.fs))
         THEN MismatchedLength(Len(Keys(self.fs)), Len(Keys(other.fs)))
         ELSE unify_record(self.fs, other.fs, ctx, depth, 1, {})
    ELSE unify_equal(self, other)

\* the loop over a.iter().zip(b) of the Tuple arm, from the i-th pair on
unify_tuple(a, b, ctx, depth, i, types) ==
    IF i > Len(a) THEN Ok(Tuple(types))
    ELSE LET t == unify(a[i], b[i], ctx, depth + 1)
         IN  IF t.status = "Ok"
             THEN unify_tuple(a, b, ctx, depth, i + 1, Append(types, t.ty))
             ELSE t

\* the loop over the zipped fields of the Record arm, from the i-th pair on
unify_record(a, b, ctx, depth, i, fields) ==
    IF i > Len(Keys(a))
    THEN Ok(Record([n \in {f[1] : f \in fields} |->
                       (CHOOSE f \in fields : f[1] = n)[2]]))
    ELSE LET a_name == Keys(a)[i]
             b_name == Keys(b)[i]
         IN  IF a_name # b_name THEN MismatchedFields(a_name)
             ELSE LET t == unify(a[a_name], b[b_name], ctx, depth + 1)
                  IN  IF t.status = "Ok"
                      THEN unify_record(a, b, ctx, depth, i + 1,
                                        fields \cup {<<a_name, t.ty>>})
                      ELSE t

(***************************************************************************)
(* The inputs of the Type operations.                                      *)
(***************************************************************************)
Ids == 0..MaxId
Infers == {Infer(i) : i \in Ids}
Atoms == {Integer, Bool, Never} \cup Infers
Elems == {Integer} \cup Infers
TupleTypes == {Tuple(ts) : ts \in UNION {[1..n -> Elems] : n \in 0..MaxTupleLen}}
RecordTypes ==
    {Record([a |-> t]) : t \in Elems}
        \cup {Record([a |-> t, b |-> u]) : t, u \in {Integer, Infer(0)}}
        \cup {Record([b |-> Integer])}
NestedTypes ==
    {Array(Tuple(<<t>>)) : t \in {Integer, Infer(0), Never}}
        \cup {Tuple(<<Never>>), Tuple(<<Integer, Bool>>),
              Lambda(<<Integer>>, Never), Lambda(<<Error>>, Integer),
              Parameterized("p", <<Integer>>), Parameterized("p", <<Infer(0)>>),
              Record([a |-> Error])}
Types ==
    Atoms \cup {Error} \cup {Array(t) : t \in Elems} \cup TupleTypes
        \cup RecordTypes \cup {Lambda(<<t>>, Integer) : t \in Elems}
        \cup NestedTypes

\* the maps an InferenceContext can hold for the variables
Contexts ==
    UNION {[D -> Elems] : D \in SUBSET Ids}

TypeInit ==
    /\ self_ty \in Types
    /\ other_ty \in Types
    /\ context \in Contexts
    /\ unified = [op |-> "none"]
    /\ LexerIdle
    /\ CtxIdle
    /\ RestIdle

\* self_ty.unify(&other_ty, &context): the context is borrowed immutably
Unify ==
    /\ unified.op = "none"
    /\ unified' = [op |-> "unify", res |-> unify(self_ty, other_ty, context, 0)]
    /\ UNCHANGED <<self_ty, other_ty, context, lexerVars, ctxVars, restVars>>

\* self_ty.is_monotype()
IsMonotype ==
    /\ unified.op = "none"
    /\ unified' = [op |-> "is_monotype", res |-> is_monotype(self_ty)]
    /\ UNCHANGED <<self_ty, other_ty, context, lexerVars, ctxVars, restVars>>

TypeNext == Unify \/ IsMonotype

TypeSpec == TypeInit /\ [][TypeNext]_vars

(***************************************************************************)
(* kali-type/src/infer.rs: the inference context                           *)
(***************************************************************************)
MaxCounter == 3     \* no inference variable is declared once counter reaches it
MaxScopes == 3      \* no scope is pushed onto a stack of this depth

\* Scope::new: no known names
NewScope == <<>>

\* Context::get_known: the innermost scope that knows the name decides
get_known(scopes, name) ==
    LET found == {i \in 1..Len(scopes) : name \in DOMAIN scopes[i]}
    IN  IF found = {} THEN [some |-> FALSE]
        ELSE [some |-> TRUE, ty |-> scopes[Max(found)][name]]

\* a declare_known that inserts into the outermost scope
declare_known_outermost(scopes, name, ty) ==
    [scopes EXCEPT ![1] = (name :> ty) @@ @]

\* Context::declare_known: insert into the last scope
declare_known(scopes, name, ty) ==
    [scopes EXCEPT ![Len(scopes)] = (name :> ty) @@ @]

\* Context::declare_known_iter: later entries replace earlier ones
RECURSIVE declare_known_iter(_, _, _)
declare_known_iter(scopes, entries, i) ==
    IF i > Len(entries) THEN scopes
    ELSE declare_known_iter(
             declare_known(scopes, entries[i].name, entries[i].ty), entries, i + 1)

\* Context::push
push(scopes) == Append(scopes, NewScope)

\* Context::pop, on a stack of more than one scope
pop(scopes) == SubSeq(scopes, 1, Len(scopes) - 1)

\* Context::get_inferred
get_inferred(map, idx) ==
    IF idx \in DOMAIN map THEN [some |-> TRUE, ty |-> map[idx]]
    ELSE [some |-> FALSE]

(***************************************************************************)
(* kali-type/src/resolve.rs                                                *)
(***************************************************************************)
ResolutionFailed(t) == [status |-> "ResolutionFailed", ty |-> t]

RECURSIVE resolve(_, _, _)
RECURSIVE map_resolve(_, _, _, _, _)
RECURSIVE resolve_fields(_, _, _, _, _)

\* Type::resolve; depth counts the calls on the stack
resolve(t, map, depth) ==
    IF depth > StackLimit THEN StackOverflow
    ELSE CASE t.k = "Array" ->
                LET x == resolve(t.t, map, depth + 1)
                IN  IF x.status = "Ok" THEN Ok(Array(x.ty)) ELSE x
           [] t.k = "Tuple" ->
                LET ts == map_resolve(t.ts, map, depth, 1, <<>>)
                IN  IF ts.status = "Ok" THEN Ok(Tuple(ts.tys)) ELSE ts
           [] t.k = "Record" ->
                LET fs == resolve_fields(t.fs, map, depth, 1, t.fs)
                IN  IF fs.status = "Ok" THEN Ok(Record(fs.fs)) ELSE fs
           [] t.k = "Parameterized" ->
                LET ts == map_resolve(t.ts, map, depth, 1, <<>>)
                IN  IF ts.status = "Ok" THEN Ok(Parameterized(t.name, ts.tys))
                    ELSE ts
           [] t.k = "Lambda" ->
                LET ps == map_resolve(t.ps, map, depth, 1, <<>>)
                IN  IF ps.status # "Ok" THEN ps
                    ELSE LET r == resolve(t.r, map, depth + 1)
                         IN  IF r.status = "Ok" THEN Ok(Lambda(ps.tys, r.ty))
                             ELSE r
           [] t.k = "Infer" ->
                LET ty == get_inferred(map, t.id)
                IN  IF ty.some THEN resolve(ty.ty, map, depth + 1)
                    ELSE ResolutionFailed(t)
           [] OTHER -> Ok(t)

\* TypeIterator::map_resolve, collected into a Result: the first error ends it
map_resolve(ts, map, depth, i, acc) ==
    IF i > Len(ts) THEN [status |-> "Ok", tys |-> acc]
    ELSE LET x == resolve(ts[i], map, depth + 1)
         IN  IF x.status = "Ok"
             THEN map_resolve(ts, map, depth, i + 1, Append(acc, x.ty))
             ELSE x

\* the loop over the fields of the Record arm, in key order
resolve_fields(fs, map, depth, i, acc) ==
    IF i > Len(Keys(fs)) THEN [status |-> "Ok", fs |-> acc]
    ELSE LET name == Keys(fs)[i]
             x == resolve(fs[name], map, depth + 1)
         IN  IF x.status = "Ok"
             THEN resolve_fields(fs, map, depth, i + 1,
                                 [acc EXCEPT ![name] = x.ty])
             ELSE x

\* the types Context::infer is called with
InferredTypes == Elems \cup {Array(Infer(i)) : i \in Ids}

\* Context::new
NewContext ==
    /\ scope = <<NewScope>>
    /\ counter = 0
    /\ inferred = <<>>
    /\ pc = "idle"
    /\ decl = [name |-> "none"]
    /\ ret = [op |-> "none"]

ResolveInit == NewContext /\ LexerIdle /\ TypeIdle /\ RestIdle

\* Context::infer(idx, real)
InferType ==
    /\ \E idx \in Ids, real \in InferredTypes :
           inferred' = (idx :> real) @@ inferred
    /\ ret' = [op |-> "infer"]
    /\ UNCHANGED <<scope, counter, pc, decl, lexerVars, typeVars, restVars>>

\* t.resolve(&mut context)
Resolve ==
    /\ \E t \in Types :
           ret' = [op |-> "resolve", ty |-> t, res |-> resolve(t, inferred, 0)]
    /\ UNCHANGED <<scope, counter, inferred, pc, decl, lexerVars, typeVars, restVars>>

ResolveNext == InferType \/ Resolve

ResolveSpec == ResolveInit /\ [][ResolveNext]_vars

(***************************************************************************)
(* Properties of the types.                                                *)
(***************************************************************************)
\* the types directly inside a type
Children(t) ==
    CASE t.k = "Array" -> {t.t}
      [] t.k = "Tuple" -> {t.ts[i] : i \in 1..Len(t.ts)}
      [] t.k = "Record" -> {t.fs[n] : n \in DOMAIN t.fs}
      [] t.k = "Parameterized" -> {t.ts[i] : i \in 1..Len(t.ts)}
      [] t.k = "Lambda" -> {t.ps[i] : i \in 1..Len(t.ps)} \cup {t.r}
      [] OTHER -> {}

\* a type of one of the kinds occurs in t, at any depth
RECURSIVE Mentions(_, _)
Mentions(t, kinds) ==
    t.k \in kinds \/ \E c \in Children(t) : Mentions(c, kinds)

HasInfer(t) == Mentions(t, {"Infer"})

\* the ids of the inference variables that occur in t
RECURSIVE FreeVars(_)
FreeVars(t) ==
    IF t.k = "Infer" THEN {t.id}
    ELSE UNION {FreeVars(c) : c \in Children(t)}

\* the inference variables reachable from a set of them through the map
RECURSIVE Closure(_, _)
Closure(S, map) ==
    LET next == S \cup UNION {FreeVars(map[v]) : v \in S \cap DOMAIN map}
    IN  IF next = S THEN S ELSE Closure(next, map)

Reachable(t, map) == Closure(FreeVars(t), map)

Bound(map, i, x) == i \in DOMAIN map /\ map[i] = x

Min(a, b) == IF a <= b THEN a ELSE b
Larger(a, b) == IF a <= b THEN b ELSE a

\* C3: when unify(Infer(i), x) or unify(x, Infer(i)) succeeds for a
\* non-inference x it returns x and the context holds i -> x afterwards;
\* unifying Tuple[Infer 0, Integer] with Tuple[Integer, Infer 1] leaves
\* 0 -> Integer and 1 -> Integer recorded.
C3_BindsVariable ==
    (unified.op = "unify" /\ unified.res.status = "Ok") =>
        /\ (self_ty.k = "Infer" /\ other_ty.k # "Infer") =>
               unified.res.ty = other_ty /\ Bound(context, self_ty.id, other_ty)
        /\ (other_ty.k = "Infer" /\ self_ty.k # "Infer") =>
               unified.res.ty = self_ty /\ Bound(context, other_ty.id, self_ty)
        /\ (/\ self_ty = Tuple(<<Infer(0), Integer>>)
            /\ other_ty = Tuple(<<Integer, Infer(1)>>)) =>
               Bound(context, 0, Integer) /\ Bound(context, 1, Integer)

\* C4: unify(a, a, ctx) succeeds and returns a, for every type a and every
\* context, also when the context binds an inference variable of a.
C4_Idempotent ==
    (unified.op = "unify" /\ self_ty = other_ty) => unified.res = Ok(self_ty)

\* C5: for types a and b without inference variables unify(a, b, ctx) and
\* unify(b, a, ctx) both fail or both succeed with the same type.
C5_Commutative ==
    (unified.op = "unify" /\ ~HasInfer(self_ty) /\ ~HasInfer(other_ty)) =>
        LET swapped == unify(other_ty, self_ty, context, 0)
        IN  /\ (unified.res.status = "Ok") <=> (swapped.status = "Ok")
            /\ unified.res.status = "Ok" => unified.res.ty = swapped.ty

\* two different ground tuples of one length have been unified, and the
\* records of one shape as well as equal types are among the inputs
C5_Witness ==
    /\ unified.op = "unify"
    /\ self_ty = Tuple(<<Integer, Bool>>)
    /\ other_ty = Tuple(<<Integer, Integer>>)
    /\ unified.res.status = "MismatchedFields"

\* C6: unifying two distinct inference variables returns the one with the
\* smaller id and binds the larger id to it, in either argument order;
\* unifying a variable with itself returns that variable.
C6_SmallerVariable ==
    (unified.op = "unify" /\ self_ty.k = "Infer" /\ other_ty.k = "Infer") =>
        IF self_ty.id = other_ty.id
        THEN unified.res = Ok(self_ty)
        ELSE /\ unified.res = Ok(Infer(Min(self_ty.id, other_ty.id)))
             /\ Bound(context, Larger(self_ty.id, other_ty.id),
                      Infer(Min(self_ty.id, other_ty.id)))

\* C7: a successful resolve returns a type without Infer, and resolve fails
\* with ResolutionFailed exactly when an inference variable reachable from
\* the type through the substitution map has no entry.
C7_Resolve ==
    ret.op = "resolve" =>
        /\ ret.res.status = "Ok" => ~HasInfer(ret.res.ty)
        /\ (ret.res.status = "ResolutionFailed") <=>
               (\E v \in Reachable(ret.ty, inferred) : v \notin DOMAIN inferred)

\* C27: Type::resolve terminates for every type and every substitution map
\* that Context::infer can build: it returns a type or ResolutionFailed and
\* does not recurse until the stack is exhausted.
C27_ResolveTerminates ==
    ret.op = "resolve" => ret.res.status \in {"Ok", "ResolutionFailed"}

Names == {"f", "x", "y"}
ParamNames == {"x"}
FuncNames == {"f"}

NoType == [some |-> FALSE]
SomeType(t) == [some |-> TRUE, ty |-> t]

Ident(name) == [e |-> "Ident", name |-> name]
Literal(t) == [e |-> "Literal", ty |-> t]
Bodies == {Ident(n) : n \in Names} \cup {Literal(Integer), Literal(Bool)}

Annotations == {NoType, SomeType(Integer)}
ParamLists ==
    {<<>>} \cup {<<[name |-> n, ty |-> a]>> : n \in ParamNames, a \in Annotations}

\* FuncDecl::new
FuncDecls ==
    [name : FuncNames, params : ParamLists, ret_ty : Annotations, body : Bodies]

\* the number of declare_inferred calls a list of annotations leads to
Unannotated(params) ==
    Cardinality({i \in 1..Len(params) : ~params[i].ty.some})

\* annotation.map(as_ty).unwrap_or_else(|| context.declare_inferred()) for
\* the i-th parameter, the counter standing at c before the first one
param_ty(params, i, c) ==
    IF params[i].ty.some THEN params[i].ty.ty
    ELSE Infer(c + Unannotated(SubSeq(params, 1, i - 1)))

\* the (name, type) pairs FuncDecl declares for its parameters
declared_params(params, c) ==
    [i \in 1..Len(params) |->
        [name |-> params[i].name, ty |-> param_ty(params, i, c)]]

Tys(entries) == [i \in 1..Len(entries) |-> entries[i].ty]

\* impl Typed for Expr: Literal and Ident
expr_ty(e, scopes, c) ==
    IF e.e = "Literal" THEN [ty |-> e.ty, counter |-> c]
    ELSE LET known == get_known(scopes, e.name)
         IN  IF known.some THEN [ty |-> known.ty, counter |-> c]
             ELSE [ty |-> Infer(c), counter |-> c + 1]

\* Rewriter<Identifier>: ctx.get_known(&node.value).unwrap()
rewrite_identifier(scopes, name) ==
    LET known == get_known(scopes, name)
    IN  IF known.some THEN [status |-> "Ok", ty |-> known.ty]
        ELSE [status |-> "panic"]

\* Rewriter<Expr> on a Literal or an Ident
rewrite_expr(e, scopes) ==
    IF e.e = "Literal" THEN [status |-> "Ok", ty |-> e.ty]
    ELSE rewrite_identifier(scopes, e.name)

\* the scope stack stmt/mod.rs:79-88 leaves: the parameters and then the
\* function's own name go into the scope just pushed
func_decl_scopes(scopes, d, params, ret_ty) ==
    declare_known(declare_known_iter(push(scopes), params, 1),
                  d.name, Lambda(Tys(params), ret_ty))

TypingInit == NewContext /\ LexerIdle /\ TypeIdle /\ RestIdle

\* Expr::Ident(name).ty(context)
TypeIdent ==
    /\ pc = "idle"
    /\ counter < MaxCounter
    /\ \E name \in Names :
           LET r == expr_ty(Ident(name), scope, counter)
           IN  /\ counter' = r.counter
               /\ ret' = [op |-> "ident", name |-> name, status |-> "Ok",
                          ty |-> r.ty]
    /\ UNCHANGED <<scope, inferred, pc, decl, lexerVars, typeVars, restVars>>

\* TypeInferenceEngine::rewrite(ctx, Identifier)
RewriteIdentifier ==
    /\ pc = "idle"
    /\ \E name \in Names :
           LET r == rewrite_identifier(scope, name)
           IN  /\ ret' = [op |-> "rewrite_ident", name |-> name] @@ r
               /\ pc' = IF r.status = "panic" THEN "panicked" ELSE "idle"
    /\ UNCHANGED <<scope, counter, inferred, decl, lexerVars, typeVars, restVars>>

\* Stmt::FuncDecl(d).ty(context), up to the call of body.ty(context)
TypeFuncDecl ==
    /\ pc = "idle"
    /\ Len(scope) < MaxScopes
    /\ \E d \in FuncDecls :
           /\ counter + Unannotated(d.params) + 2 <= MaxCounter
           /\ LET ret_ty == IF d.ret_ty.some THEN d.ret_ty.ty ELSE Infer(counter)
                  c1 == IF d.ret_ty.some THEN counter ELSE counter + 1
                  params == declared_params(d.params, c1)
              IN  /\ counter' = c1 + Unannotated(d.params)
                  /\ scope' = func_decl_scopes(scope, d, params, ret_ty)
                  /\ decl' = [name |-> d.name, body |-> d.body,
                              ret_ty |-> ret_ty,
                              lambda |-> Lambda(Tys(params), ret_ty)]
    /\ pc' = "body"
    /\ ret' = [op |-> "func_decl_enter"]
    /\ UNCHANGED <<inferred, lexerVars, typeVars, restVars>>

\* Stmt::FuncDecl(d).ty(context), from body.ty(context) on: an error of the
\* unification returns before context.pop()
TypeFuncDeclBody ==
    /\ pc = "body"
    /\ LET body == expr_ty(decl.body, scope, counter)
           u == unify(decl.ret_ty, body.ty, inferred, 0)
       IN  /\ counter' = body.counter
           /\ IF u.status = "Ok"
              THEN /\ scope' = pop(scope)
                   /\ ret' = [op |-> "func_decl", status |-> "Ok", ty |-> Never]
              ELSE /\ scope' = scope
                   /\ ret' = [op |-> "func_decl",
                              status |-> "UnificationFailed",
                              tys |-> <<body.ty, decl.ret_ty>>]
    /\ pc' = "idle"
    /\ UNCHANGED <<inferred, decl, lexerVars, typeVars, restVars>>

\* C26: typing a function declaration leaves the scope stack at the depth
\* it had before the call, whether typing succeeds or returns an error: the
\* context starts with one scope, so between two statements it has one.
C26_ScopeDepthKept ==
    pc = "idle" => Len(scope) = 1

\* TypeInferenceEngine::rewrite(ctx, FuncDecl): the parameters are rewritten
\* first (an annotation reaches todo!(), the name is looked up), then the
\* body under a pushed scope, then the name and the return annotation
rewrite_func_decl(scopes, d, c) ==
    LET params_ok ==
            \A i \in 1..Len(d.params) :
                /\ ~d.params[i].ty.some
                /\ rewrite_identifier(scopes, d.params[i].name).status = "Ok"
        params == declared_params(d.params, c)
        inner == declare_known_iter(push(scopes), params, 1)
        body == rewrite_expr(d.body, inner)
        name == rewrite_identifier(scopes, d.name)
    IN  IF ~params_ok \/ body.status = "panic" \/ name.status = "panic"
           \/ d.ret_ty.some
        THEN [status |-> "panic"]
        ELSE [status |-> "Ok",
              ty |-> Lambda([i \in 1..Len(d.params) |-> Never], body.ty),
              counter |-> c + Unannotated(d.params)]

RewriteFuncDecl ==
    /\ pc = "idle"
    /\ Len(scope) < MaxScopes
    /\ \E d \in FuncDecls :
           /\ counter + Unannotated(d.params) <= MaxCounter
           /\ LET r == rewrite_func_decl(scope, d, counter)
              IN  /\ counter' = IF r.status = "Ok" THEN r.counter ELSE counter
                  /\ pc' = IF r.status = "Ok" THEN "idle" ELSE "panicked"
                  /\ ret' = [op |-> "rewrite_func_decl", status |-> r.status]
                  /\ decl' = [name |-> d.name, body |-> d.body,
                              ret_ty |-> Never,
                              lambda |-> IF r.status = "Ok" THEN r.ty ELSE Never]
    /\ UNCHANGED <<scope, inferred, lexerVars, typeVars, restVars>>

TypingNext ==
    \/ TypeIdent
    \/ RewriteIdentifier
    \/ TypeFuncDecl
    \/ TypeFuncDeclBody
    \/ RewriteFuncDecl

TypingSpec == TypingInit /\ [][TypingNext]_vars

C10_IdentTyped ==
    ret.op \in {"ident", "rewrite_ident"} =>
        LET known == get_known(scope, ret.name)
        IN  /\ ret.status = "Ok"
            /\ ret.ty = IF known.some THEN known.ty ELSE Infer(counter - 1)

(***************************************************************************)
(* kali-type/src/infer.rs: TypeInferenceError                              *)
(***************************************************************************)
UnificationFailed(a, b, err) ==
    [error |-> "UnificationFailed", tys |-> <<a, b>>, err |-> err]
Mismatch(expected, found) ==
    [error |-> "Mismatch", expected |-> expected, found |-> found]
Multiple(es) == [error |-> "Multiple", errors |-> es]

\* TypeInferenceError::combine: the third arm pushes self after the errors
\* of other
combine(self, other) ==
    IF self.error = "Multiple" /\ other.error = "Multiple"
    THEN Multiple(self.errors \o other.errors)
    ELSE IF self.error = "Multiple"
    THEN Multiple(Append(self.errors, other))
    ELSE IF other.error = "Multiple"
    THEN Multiple(Append(other.errors, self))
    ELSE Multiple(<<self, other>>)

\* the errors handed to combine: three single errors and the lists of at
\* most MaxErrors of them
MaxErrors == 2
SingleErrors ==
    {Mismatch(Bool, Integer), Mismatch(Integer, Bool),
     UnificationFailed(Integer, Bool, MismatchedFields(<<Integer, Bool>>))}
InferenceErrors ==
    SingleErrors
        \cup {Multiple(es) : es \in UNION {[1..n -> SingleErrors] : n \in 0..MaxErrors}}

ErrorInit ==
    /\ errors \in InferenceErrors \X InferenceErrors \X InferenceErrors
    /\ combined = [op |-> "none"]
    /\ LexerIdle
    /\ LateIdle
    /\ TypeIdle
    /\ CtxIdle
    /\ HistIdle
    /\ AstIdle
    /\ ParseIdle

\* a.combine(b).combine(c) and a.combine(b.combine(c))
Combine ==
    /\ combined.op = "none"
    /\ combined' =
           [op |-> "combine",
            left |-> combine(combine(errors[1], errors[2]), errors[3]),
            right |-> combine(errors[1], combine(errors[2], errors[3]))]
    /\ UNCHANGED <<errors, lexerVars, typeVars, ctxVars, histVars, astVars, parseVars,
                   lateVars>>

ErrorNext == Combine

ErrorSpec == ErrorInit /\ [][ErrorNext]_vars

\* C13: combine(combine(a, b), c) equals combine(a, combine(b, c)) for all
\* inference errors a, b and c.
C13_CombineAssociative ==
    combined.op = "combine" => combined.left = combined.right

(***************************************************************************)
(* kali-ast/src/expr/binary.rs, kali-ast/src/expr/conditional.rs and       *)
(* kali-type/src/engine.rs: typing binary expressions and conditionals     *)
(***************************************************************************)
BinaryExpr(lhs, op, rhs) ==
    [e |-> "BinaryExpr", lhs |-> lhs, operator |-> op, rhs |-> rhs]
Conditional(condition, body, otherwise) ==
    [e |-> "Conditional", condition |-> condition, body |-> body,
     otherwise |-> otherwise]

Comparisons == {"Equal", "NotEqual", "LessThan", "LessThanOrEqual",
                "GreaterThan", "GreaterThanOrEqual"}
Logicals == {"LogicalAnd", "LogicalOr"}

\* Result<Type, TypeInferenceError> together with the counter the call left
Typed(t, c) == [status |-> "Ok", ty |-> t, counter |-> c]
Err(err, c) == [status |-> "Err", err |-> err, counter |-> c]

\* the and_then closure of BinaryExpr::ty: what the operator asks of the
\* unified operand type
operator_ty(inner, op, map) ==
    IF op \in Comparisons
    THEN LET u == unify(inner, Integer, map, 0)
         IN  IF u.status = "Ok" THEN Ok(Bool) ELSE u
    ELSE IF op \in Logicals
    THEN unify(inner, Bool, map, 0)
    ELSE Ok(inner)

\* the (Ok(lhs), Ok(rhs)) arm of BinaryExpr::ty
binary_unify(lhs, rhs, op, map) ==
    LET inner == unify(lhs, rhs, map, 0)
    IN  IF inner.status = "Ok" THEN operator_ty(inner.ty, op, map)
        ELSE inner

RECURSIVE ty(_, _, _, _)

\* impl Typed for BinaryExpr: both operands are typed before the match
binary_ty(e, scopes, c, map) ==
    The({The({
        IF lhs.status = "Ok" /\ rhs.status = "Ok"
        THEN LET u == binary_unify(lhs.ty, rhs.ty, e.operator, map)
             IN  IF u.status = "Ok" THEN Typed(u.ty, rhs.counter)
                 ELSE Err(UnificationFailed(lhs.ty, rhs.ty, u), rhs.counter)
        ELSE IF rhs.status = "Ok" THEN Err(lhs.err, rhs.counter)
        ELSE IF lhs.status = "Ok" THEN Err(rhs.err, rhs.counter)
        ELSE Err(combine(lhs.err, rhs.err), rhs.counter) :
        rhs \in {ty(e.rhs, scopes, lhs.counter, map)}}) :
        lhs \in {ty(e.lhs, scopes, c, map)}})

\* Conditional::ty once the condition has the type Bool
branches_ty(e, scopes, c, map) ==
    The({IF body.status # "Ok" THEN body
         ELSE The({
             IF otherwise.status # "Ok" THEN otherwise
             ELSE LET u == unify(body.ty, otherwise.ty, map, 0)
                  IN  IF u.status = "Ok" THEN Typed(u.ty, otherwise.counter)
                      ELSE Err(UnificationFailed(body.ty, otherwise.ty, u),
                               otherwise.counter) :
             otherwise \in {ty(e.otherwise, scopes, body.counter, map)}}) :
         body \in {ty(e.body, scopes, c, map)}})

\* impl Typed for Conditional: the condition's type is compared with Bool
conditional_ty(e, scopes, c, map) ==
    The({IF condition.status # "Ok" THEN condition
         ELSE IF condition.ty # Bool
         THEN Err(Mismatch(Bool, condition.ty), condition.counter)
         ELSE branches_ty(e, scopes, condition.counter, map) :
         condition \in {ty(e.condition, scopes, c, map)}})

\* impl Typed for Expr
ty(e, scopes, c, map) ==
    CASE e.e = "BinaryExpr" -> binary_ty(e, scopes, c, map)
      [] e.e = "Conditional" -> conditional_ty(e, scopes, c, map)
      [] OTHER -> LET r == expr_ty(e, scopes, c) IN Typed(r.ty, r.counter)

\* Result<Node<Meta>, TypeInferenceError> of the engine, or its panic
Rewritten(t) == [status |-> "Ok", ty |-> t]
Failed(err) == [status |-> "Err", err |-> err]
Panicked == [status |-> "panic"]

RECURSIVE rewrite(_, _, _)

\* Rewriter<BinaryExpr>: the ? after the left operand returns before the
\* right operand is rewritten
rewrite_binary(e, scopes, map) ==
    The({IF lhs.status # "Ok" THEN lhs
         ELSE The({
             IF rhs.status # "Ok" THEN rhs
             ELSE IF e.operator \in Comparisons THEN Rewritten(Bool)
             ELSE LET u == unify(lhs.ty, rhs.ty, map, 0)
                  IN  IF u.status = "Ok" THEN Rewritten(u.ty)
                      ELSE Failed(UnificationFailed(lhs.ty, rhs.ty, u)) :
             rhs \in {rewrite(e.rhs, scopes, map)}}) :
         lhs \in {rewrite(e.lhs, scopes, map)}})

\* Rewriter<Conditional>, after its three children are rewritten
rewrite_conditional_unify(condition, body, otherwise, map) ==
    LET b == unify(condition, Bool, map, 0)
        u == unify(body, otherwise, map, 0)
    IN  IF b.status # "Ok" THEN Failed(UnificationFailed(condition, Bool, b))
        ELSE IF u.status # "Ok"
        THEN Failed(UnificationFailed(body, otherwise, u))
        ELSE Rewritten(u.ty)

\* Rewriter<Conditional>
rewrite_conditional(e, scopes, map) ==
    The({IF condition.status # "Ok" THEN condition
         ELSE IF body.status # "Ok" THEN body
         ELSE IF otherwise.status # "Ok" THEN otherwise
         ELSE rewrite_conditional_unify(condition.ty, body.ty, otherwise.ty,
                                        map) :
         condition \in {rewrite(e.condition, scopes, map)},
         body \in {rewrite(e.body, scopes, map)},
         otherwise \in {rewrite(e.otherwise, scopes, map)}})

\* Rewriter<Expr>
rewrite(e, scopes, map) ==
    CASE e.e = "BinaryExpr" -> rewrite_binary(e, scopes, map)
      [] e.e = "Conditional" -> rewrite_conditional(e, scopes, map)
      [] OTHER -> rewrite_expr(e, scopes)

\* the expressions handed to the typing rules
Leaves == {Literal(Integer), Literal(Bool), Ident("x"), Ident("y")}
IllTyped ==
    {BinaryExpr(Literal(Integer), "Add", Literal(Bool)),
     BinaryExpr(Literal(Bool), "Add", Literal(Integer)),
     Conditional(Literal(Integer), Literal(Bool), Literal(Bool)),
     Conditional(Literal(Bool), Literal(Integer), Literal(Bool))}
WellTyped ==
    {BinaryExpr(Literal(Integer), "Add", Literal(Integer)),
     BinaryExpr(Literal(Integer), "Equal", Literal(Integer))}
Operands == Leaves \cup IllTyped \cup WellTyped
ExprOperators == {"Add", "Equal", "LogicalAnd"}
BinaryExprs ==
    {BinaryExpr(lhs, op, rhs) : lhs, rhs \in Operands, op \in ExprOperators}
Conditionals ==
    {Conditional(c, b, o) : c \in Operands, b, o \in Leaves}

\* the contexts an expression is typed in: x may have been declared, and
\* Infer(0) has been handed out and may have been inferred; one expression
\* is typed or rewritten in each of them
ExprScopes ==
    {<<NewScope>>} \cup {<<("x" :> t)>> : t \in {Integer, Bool, Infer(0)}}
ExprInferred == {<<>>} \cup {(0 :> t) : t \in {Integer, Bool}}

ExprInit ==
    /\ scope \in ExprScopes
    /\ counter = 1
    /\ inferred \in ExprInferred
    /\ pc = "idle"
    /\ decl = [name |-> "none"]
    /\ ret = [op |-> "none"]
    /\ LexerIdle
    /\ TypeIdle
    /\ RestIdle

\* Expr::Conditional(e).ty(context)
TypeConditional ==
    /\ pc = "idle"
    /\ ret.op = "none"
    /\ counter < MaxCounter
    /\ \E e \in Conditionals :
           LET r == ty(e, scope, counter, inferred)
           IN  /\ counter' = r.counter
               /\ ret' = [op |-> "ty", e |-> e, c0 |-> counter, res |-> r]
    /\ UNCHANGED <<scope, inferred, pc, decl, lexerVars, typeVars, restVars>>

\* Expr::BinaryExpr(e).ty(context)
TypeBinaryExpr ==
    /\ pc = "idle"
    /\ ret.op = "none"
    /\ counter < MaxCounter
    /\ \E e \in BinaryExprs :
           LET r == ty(e, scope, counter, inferred)
           IN  /\ counter' = r.counter
               /\ ret' = [op |-> "ty", e |-> e, c0 |-> counter, res |-> r]
    /\ UNCHANGED <<scope, inferred, pc, decl, lexerVars, typeVars, restVars>>

\* TypeInferenceEngine::rewrite(ctx, Expr::Conditional(e))
RewriteConditional ==
    /\ pc = "idle"
    /\ ret.op = "none"
    /\ \E e \in Conditionals :
           LET r == rewrite(e, scope, inferred)
           IN  /\ ret' = [op |-> "rewrite", e |-> e, c0 |-> counter, res |-> r]
               /\ pc' = IF r.status = "panic" THEN "panicked" ELSE "idle"
    /\ UNCHANGED <<scope, counter, inferred, decl, lexerVars, typeVars,
                   restVars>>

\* TypeInferenceEngine::rewrite(ctx, Expr::BinaryExpr(e))
RewriteBinaryExpr ==
    /\ pc = "idle"
    /\ ret.op = "none"
    /\ \E e \in BinaryExprs :
           LET r == rewrite(e, scope, inferred)
           IN  /\ ret' = [op |-> "rewrite", e |-> e, c0 |-> counter, res |-> r]
               /\ pc' = IF r.status = "panic" THEN "panicked" ELSE "idle"
    /\ UNCHANGED <<scope, counter, inferred, decl, lexerVars, typeVars,
                   restVars>>

ExprNext ==
    \/ TypeConditional
    \/ TypeBinaryExpr
    \/ RewriteConditional
    \/ RewriteBinaryExpr

ExprSpec == ExprInit /\ [][ExprNext]_vars

\* the result of typing or rewriting a child of the last expression, in the
\* context the call found (the counter at c)
Child(e, c) ==
    IF ret.op = "ty" THEN ty(e, scope, c, inferred)
    ELSE rewrite(e, scope, inferred) @@ [counter |-> c]

\* C11: a conditional whose three children have types is accepted exactly
\* when the condition's type unifies with Bool and the two branch types
\* unify with each other, and its type is then the unified branch type; a
\* condition whose type is an unbound inference variable is accepted.
C11_ConditionalAccepted ==
    (ret.op \in {"ty", "rewrite"} /\ ret.e.e = "Conditional") =>
        LET condition == Child(ret.e.condition, ret.c0)
            body == Child(ret.e.body, condition.counter)
            otherwise == Child(ret.e.otherwise, body.counter)
            b == unify(condition.ty, Bool, inferred, 0)
            u == unify(body.ty, otherwise.ty, inferred, 0)
        IN  (condition.status = "Ok" /\ body.status = "Ok"
                /\ otherwise.status = "Ok") =>
                /\ ret.res.status = "Ok" <=> (b.status = "Ok" /\ u.status = "Ok")
                /\ ret.res.status = "Ok" => ret.res.ty = u.ty

\* C12: when both operands of a binary expression fail type inference, the
\* error returned holds both operands' errors joined in one Multiple.
C12_BothErrors ==
    (ret.op \in {"ty", "rewrite"} /\ ret.e.e = "BinaryExpr") =>
        LET lhs == Child(ret.e.lhs, ret.c0)
            rhs == Child(ret.e.rhs, IF lhs.status = "panic" THEN ret.c0
                                    ELSE lhs.counter)
        IN  (lhs.status = "Err" /\ rhs.status = "Err") =>
                /\ ret.res.status = "Err"
                /\ ret.res.err = Multiple(<<lhs.err, rhs.err>>)

(***************************************************************************)
(* kali-type/src/infer.rs: scopes and the inference counter                *)
(***************************************************************************)
CtxNames == {"x", "y"}
CtxTypes == {Integer, Bool}

\* a declare_inferred that forgets to advance the counter
declare_inferred_stale(c) == [ty |-> Infer(c), counter |-> c]

\* Context::declare_inferred, the counter standing at c
declare_inferred(c) == [ty |-> Infer(c), counter |-> c + 1]

\* what get_known answers for every name
Lookup(scopes) == [n \in CtxNames |-> get_known(scopes, n)]

ContextInit == NewContext /\ LexerIdle /\ TypeIdle /\ RestIdle

\* context.push()
Push ==
    /\ pc = "idle"
    /\ Len(scope) < MaxScopes
    /\ scope' = push(scope)
    /\ saved' = Append(saved, Lookup(scope))
    /\ ret' = [op |-> "push"]
    /\ UNCHANGED <<counter, inferred, pc, decl, issued, lexerVars, typeVars,
                   errVars, astVars, parseVars,
                   lateVars>>

\* context.pop(): panics when only the top-level scope is left
Pop ==
    /\ pc = "idle"
    /\ IF Len(scope) = 1
       THEN /\ pc' = "panicked"
            /\ ret' = [op |-> "pop", status |-> "panic"]
            /\ UNCHANGED <<scope, saved>>
       ELSE /\ scope' = pop(scope)
            /\ saved' = SubSeq(saved, 1, Len(saved) - 1)
            /\ ret' = [op |-> "pop", status |-> "Ok",
                       before |-> saved[Len(saved)],
                       dropped |-> scope[Len(scope)]]
            /\ pc' = pc
    /\ UNCHANGED <<counter, inferred, decl, issued, lexerVars, typeVars,
                   errVars, astVars, parseVars,
                   lateVars>>

\* context.declare_known(name, ty)
DeclareKnown ==
    /\ pc = "idle"
    /\ \E name \in CtxNames, t \in CtxTypes :
           /\ scope' = declare_known(scope, name, t)
           /\ ret' = [op |-> "declare_known"]
    /\ UNCHANGED <<counter, inferred, pc, decl, histVars, lexerVars, typeVars,
                   errVars, astVars, parseVars,
                   lateVars>>

\* context.declare_inferred()
DeclareInferred ==
    /\ pc = "idle"
    /\ counter < MaxCounter
    /\ Len(issued) < MaxCounter
    /\ LET r == declare_inferred(counter)
       IN  /\ counter' = r.counter
           /\ issued' = Append(issued, [id |-> r.ty.id, nested |-> Len(scope) > 1])
           /\ ret' = [op |-> "declare_inferred", ty |-> r.ty]
    /\ UNCHANGED <<scope, inferred, pc, decl, saved, lexerVars, typeVars,
                   errVars, astVars, parseVars,
                   lateVars>>

ContextNext == Push \/ Pop \/ DeclareKnown \/ DeclareInferred

ContextSpec == ContextInit /\ [][ContextNext]_vars

\* C14: after a pop every name resolves through get_known to what it
\* resolved to immediately before the matching push, and while a scope is
\* open a name bound in it hides the same name in the outer scopes.
C14_ScopesLifo ==
    /\ (ret.op = "pop" /\ ret.status = "Ok") => Lookup(scope) = ret.before
    /\ \A n \in DOMAIN scope[Len(scope)] :
           get_known(scope, n) = SomeType(scope[Len(scope)][n])

\* a pop has just dropped a scope that hid an outer binding of another type
C14_Witness ==
    /\ ret.op = "pop"
    /\ ret.status = "Ok"
    /\ \E n \in DOMAIN ret.dropped :
           ret.before[n].some /\ ret.before[n].ty # ret.dropped[n]

\* C15: no two calls of declare_inferred on one context return the same id,
\* whatever pushes and pops happen between them.
C15_FreshIds ==
    \A i, j \in 1..Len(issued) : i # j => issued[i].id # issued[j].id

\* ids have been handed out before a push, inside the pushed scope and
\* again after its pop
C15_Witness ==
    \E i, j, k \in 1..Len(issued) :
        /\ i < j /\ j < k
        /\ ~issued[i].nested /\ issued[j].nested /\ ~issued[k].nested

(***************************************************************************)
(* kali-ast/src/rewriter.rs and kali-type/src/engine.rs: rewriting a       *)
(* module. A node is named by its path from the module.                    *)
(***************************************************************************)
MaxStmts == 2       \* the longest list of statements of a module

Wildcard == [kind |-> "Wildcard"]
Named(symbols) == [kind |-> "Named", symbols |-> symbols]
Export(symbols) == [symbols |-> symbols]

Field(p, field) == Append(p, field)
Item(p, field, i) == p \o <<field, ToString(i)>>

RECURSIVE Concat(_)
Concat(seqs) ==
    IF seqs = <<>> THEN <<>> ELSE Head(seqs) \o Concat(Tail(seqs))

\* Rewriter<Identifier> on each of the names: all of them are known
symbols_known(scopes, names) ==
    \A i \in 1..Len(names) : rewrite_identifier(scopes, names[i]).status = "Ok"

\* Rewriter<Import> and Rewriter<ImportKind>
rewrite_import(scopes, import) ==
    IF import.kind = "Named" /\ ~symbols_known(scopes, import.symbols)
    THEN Panicked ELSE [status |-> "Ok"]

\* Rewriter<Export>
rewrite_export(scopes, export) ==
    IF symbols_known(scopes, export.symbols) THEN [status |-> "Ok"]
    ELSE Panicked

\* the collect::<Result<_, _>>()? over the statements from the i-th on
RECURSIVE rewrite_stmts(_, _, _, _)
rewrite_stmts(scopes, stmts, i, c) ==
    IF i > Len(stmts) THEN [status |-> "Ok", counter |-> c]
    ELSE The({IF r.status # "Ok" THEN r
              ELSE rewrite_stmts(scopes, stmts, i + 1, r.counter) :
              r \in {rewrite_func_decl(scopes, stmts[i], c)}})

\* Rewriter<Module>: imports, exports and statements, in this order
rewrite_module(scopes, m, c) ==
    IF \E i \in 1..Len(m.imports) : rewrite_import(scopes, m.imports[i]).status # "Ok"
    THEN Panicked
    ELSE IF \E i \in 1..Len(m.exports) :
                rewrite_export(scopes, m.exports[i]).status # "Ok"
    THEN Panicked
    ELSE rewrite_stmts(scopes, m.stmts, 1, c)

\* the nodes the Identifier rewriter is applied to for a list of symbols
symbols_visits(names, p) == [j \in 1..Len(names) |-> Item(p, "symbols", j)]

\* the nodes Rewriter<Import> and Rewriter<ImportKind> are applied to
import_visits(import, p) ==
    <<p, Field(p, "kind")>>
        \o (IF import.kind = "Named"
            THEN symbols_visits(import.symbols, Field(p, "kind")) ELSE <<>>)

\* the nodes Rewriter<Export> is applied to
export_visits(export, p) == <<p>> \o symbols_visits(export.symbols, p)

\* Rewriter<FuncDeclParam>: the annotation, then the name
func_decl_param_visits(param, p) ==
    <<p>> \o (IF param.ty.some THEN <<Field(p, "ty")>> ELSE <<>>)
        \o <<Field(p, "name")>>

\* a FuncDecl rewrite that leaves the name as it was
func_decl_visits_unnamed(d, p) ==
    <<p>>
        \o Concat([j \in 1..Len(d.params) |->
                      func_decl_param_visits(d.params[j], Item(p, "params", j))])
        \o <<Field(p, "body")>>
        \o (IF d.ret_ty.some THEN <<Field(p, "ret_ty")>> ELSE <<>>)

\* Rewriter<FuncDecl>: the parameters, the body, the name, the return type
func_decl_visits(d, p) ==
    <<p>>
        \o Concat([j \in 1..Len(d.params) |->
                      func_decl_param_visits(d.params[j], Item(p, "params", j))])
        \o <<Field(p, "body")>>
        \o <<Field(p, "name")>>
        \o (IF d.ret_ty.some THEN <<Field(p, "ret_ty")>> ELSE <<>>)

\* Rewriter<Module>
module_visits(m) ==
    << <<>> >>
        \o Concat([i \in 1..Len(m.imports) |->
                      import_visits(m.imports[i], Item(<<>>, "imports", i))])
        \o Concat([i \in 1..Len(m.exports) |->
                      export_visits(m.exports[i], Item(<<>>, "exports", i))])
        \o Concat([i \in 1..Len(m.stmts) |->
                      func_decl_visits(m.stmts[i], Item(<<>>, "stmts", i))])

\* the modules handed to the rewriter
ModuleImports == {<<>>, <<Wildcard>>, <<Named(<<"x">>)>>}
ModuleExports == {<<>>, <<Export(<<"f">>)>>}
ModuleDecls ==
    {d \in FuncDecls : d.body \in {Ident("x"), Ident("y"), Literal(Integer)}}
Modules ==
    [imports : ModuleImports, exports : ModuleExports,
     stmts : UNION {[1..n -> ModuleDecls] : n \in 0..MaxStmts}]

\* the contexts the rewrite is called with: f and x may have been declared
RewriteScopes ==
    {<<NewScope>>, <<("f" :> Integer)>>, <<("x" :> Integer)>>,
     <<("f" :> Integer) @@ ("x" :> Integer)>>}

RewriteInit ==
    /\ tree \in Modules
    /\ rewritten = [op |-> "none"]
    /\ scope \in RewriteScopes
    /\ counter = 0
    /\ inferred = <<>>
    /\ pc = "idle"
    /\ decl = [name |-> "none"]
    /\ ret = [op |-> "none"]
    /\ LexerIdle
    /\ LateIdle
    /\ TypeIdle
    /\ HistIdle
    /\ ErrIdle
    /\ ParseIdle

\* TypeInferenceEngine::rewrite(ctx, module)
RewriteModule ==
    /\ pc = "idle"
    /\ rewritten.op = "none"
    /\ LET r == rewrite_module(scope, tree, counter)
       IN  /\ rewritten' = [op |-> "rewrite", status |-> r.status,
                            visits |-> IF r.status = "Ok"
                                       THEN module_visits(tree) ELSE <<>>]
           /\ counter' = IF r.status = "Ok" THEN r.counter ELSE counter
           /\ pc' = IF r.status = "panic" THEN "panicked" ELSE "idle"
    /\ UNCHANGED <<tree, scope, inferred, decl, ret, lexerVars, typeVars,
                   histVars, errVars, parseVars,
                   lateVars>>

RewriteNext == RewriteModule

RewriteSpec == RewriteInit /\ [][RewriteNext]_vars

\* the nodes of a function declaration at the path p
FuncDeclNodes(d, p) ==
    {p, Field(p, "name"), Field(p, "body")}
        \cup {Item(p, "params", j) : j \in 1..Len(d.params)}
        \cup {Field(Item(p, "params", j), "name") : j \in 1..Len(d.params)}
        \cup {Field(Item(p, "params", j), "ty") :
                 j \in {k \in 1..Len(d.params) : d.params[k].ty.some}}
        \cup (IF d.ret_ty.some THEN {Field(p, "ret_ty")} ELSE {})

\* the nodes of a module
ModuleNodes(m) ==
    {<<>>}
        \cup {Item(<<>>, "imports", i) : i \in 1..Len(m.imports)}
        \cup {Field(Item(<<>>, "imports", i), "kind") : i \in 1..Len(m.imports)}
        \cup UNION {{Item(Field(Item(<<>>, "imports", i), "kind"), "symbols", j) :
                        j \in 1..(IF m.imports[i].kind = "Named"
                                  THEN Len(m.imports[i].symbols) ELSE 0)} :
                    i \in 1..Len(m.imports)}
        \cup {Item(<<>>, "exports", i) : i \in 1..Len(m.exports)}
        \cup UNION {{Item(Item(<<>>, "exports", i), "symbols", j) :
                        j \in 1..Len(m.exports[i].symbols)} :
                    i \in 1..Len(m.exports)}
        \cup UNION {FuncDeclNodes(m.stmts[i], Item(<<>>, "stmts", i)) :
                    i \in 1..Len(m.stmts)}

Visits(log, node) == Cardinality({k \in 1..Len(log) : log[k] = node})

\* C16: a rewrite call on a module that returns successfully has applied
\* the rewrite rule exactly once to every node of the module, and to
\* nothing else.
C16_SingleVisit ==
    (rewritten.op = "rewrite" /\ rewritten.status = "Ok") =>
        /\ \A node \in ModuleNodes(tree) : Visits(rewritten.visits, node) = 1
        /\ \A k \in 1..Len(rewritten.visits) :
               rewritten.visits[k] \in ModuleNodes(tree)

\* a module with an import, an export and two functions, one of them with a
\* parameter, has been rewritten successfully
C16_Witness ==
    /\ rewritten.op = "rewrite"
    /\ rewritten.status = "Ok"
    /\ tree.imports # <<>> /\ tree.imports[1].kind = "Named"
    /\ tree.exports # <<>>
    /\ Len(tree.stmts) = 2
    /\ \E i \in 1..2 : tree.stmts[i].params # <<>>

(***************************************************************************)
(* kali-parse/src/expr.rs, kali-ast/src/expr/match.rs,                     *)
(* kali-ast/src/pattern.rs: the branches of a match expression.  A branch  *)
(* is written as p1 | ... | pk -> e; the right-hand side of the i-th       *)
(* branch is the integer literal i.  A branches map is the sequence of its *)
(* entries in iteration order.                                             *)
(***************************************************************************)
MaxBranches == 2
MaxPatterns == 2

PatternKinds == {"Wildcard", "Ident", "EmptyList"}

\* Pattern { meta, kind }
Pattern(meta, kind) == [meta |-> meta, kind |-> kind]

\* impl PartialEq for Pattern: only the kinds are compared
eq(self, other) == self.kind = other.kind

Entry(pattern, e) == [pattern |-> pattern, expr |-> e]

\* an insert that puts a new key in front of the entries
insert_front(map, key, value) ==
    IF \E i \in 1..Len(map) : eq(map[i].pattern, key)
    THEN [i \in 1..Len(map) |->
             IF eq(map[i].pattern, key)
             THEN Entry(map[i].pattern, value) ELSE map[i]]
    ELSE <<Entry(key, value)>> \o map

\* IndexMap::insert: an equal key keeps its place and its stored key and
\* takes the new value; a new key goes to the end
insert(map, key, value) ==
    IF \E i \in 1..Len(map) : eq(map[i].pattern, key)
    THEN [i \in 1..Len(map) |->
             IF eq(map[i].pattern, key)
             THEN Entry(map[i].pattern, value) ELSE map[i]]
    ELSE Append(map, Entry(key, value))

RECURSIVE flat_map(_, _)
\* branches.into_iter().flat_map(|(patterns, expr)| patterns.into_iter()
\*     .map(move |pattern| (pattern, expr.clone()))), from the i-th branch on;
\* the meta of a pattern is the place where it is written
flat_map(branches, i) ==
    IF i > Len(branches) THEN <<>>
    ELSE [j \in 1..Len(branches[i].patterns) |->
             Entry(Pattern(<<i, j>>, branches[i].patterns[j]),
                   branches[i].expr)]
         \o flat_map(branches, i + 1)

RECURSIVE collect(_, _)
\* .collect() into an IndexMap: the first n pairs inserted one by one
collect(pairs, n) ==
    IF n = 0 THEN <<>>
    ELSE The({insert(map, pairs[n].pattern, pairs[n].expr) :
              map \in {collect(pairs, n - 1)}})

\* match_expr, Match::new
match_expr(branches) ==
    The({collect(pairs, Len(pairs)) : pairs \in {flat_map(branches, 1)}})

\* the orders in which a std HashMap of n entries can iterate
HashOrders(n) ==
    {f \in [1..n -> 1..n] : \A i, j \in 1..n : f[i] = f[j] => i = j}

\* .collect() into a HashMap, iterated in the order f
collect_hashed(map, f) == [i \in 1..Len(map) |-> map[f[i]]]

RECURSIVE fold_unify(_, _, _, _)
\* TypeIterator::fold_unify from the i-th type on, acc being the
\* accumulator
fold_unify(types, i, acc, map) ==
    IF i > Len(types) THEN Rewritten(acc)
    ELSE The({IF u.status = "Ok"
              THEN fold_unify(types, i + 1, u.ty, map)
              ELSE Failed(UnificationFailed(types[i], acc, u)) :
              u \in {unify(acc, types[i], map, 0)}})

\* the branches a match expression can be written with
WrittenPatterns ==
    UNION {[1..n -> PatternKinds] : n \in 0..MaxPatterns}

WrittenBranches ==
    UNION {{[i \in 1..n |-> [patterns |-> ps[i], expr |-> i]] :
               ps \in [1..n -> WrittenPatterns]} : n \in 0..MaxBranches}

MatchInit ==
    /\ written \in WrittenBranches
    /\ matched = [op |-> "none"]
    /\ NewContext
    /\ LexerIdle
    /\ LateIdle
    /\ TypeIdle
    /\ HistIdle
    /\ ErrIdle
    /\ AstIdle
    /\ PrecIdle

\* expr (match_expr): the parser builds the Match
ParseMatch ==
    /\ matched.op = "none"
    /\ matched' = [op |-> "parse", branches |-> match_expr(written)]
    /\ UNCHANGED <<written, ctxVars, lexerVars, typeVars, histVars, errVars,
                   astVars, precVars,
                   lateVars>>

\* Rewriter<Match> for TypeInferenceEngine: an identifier pattern is looked
\* up in the context, which knows no name; the branches are collected into
\* a HashMap and their types folded
EngineRewriteMatch ==
    /\ matched.op = "parse"
    /\ pc = "idle"
    /\ counter < MaxCounter
    /\ IF \E i \in 1..Len(matched.branches) :
              matched.branches[i].pattern.kind = "Ident"
       THEN /\ matched' = [op |-> "rewrite", by |-> "engine",
                           status |-> "panic"]
            /\ pc' = "panicked"
            /\ UNCHANGED counter
       ELSE /\ \E f \in HashOrders(Len(matched.branches)),
                  d \in {declare_inferred(counter)} :
                  \E t \in {fold_unify([i \in 1..Len(matched.branches) |->
                                           Integer], 1, d.ty, inferred)} :
                      /\ matched' = [op |-> "rewrite", by |-> "engine",
                                     status |-> t.status,
                                     input |-> matched.branches,
                                     branches |->
                                         collect_hashed(matched.branches, f)]
                      /\ counter' = d.counter
            /\ UNCHANGED pc
    /\ UNCHANGED <<written, scope, inferred, decl, ret, lexerVars, typeVars,
                   histVars, errVars, astVars, precVars,
                   lateVars>>

\* Rewriter<Match> for Eraser: the branches are collected into a HashMap
EraserRewriteMatch ==
    /\ matched.op = "parse"
    /\ \E f \in HashOrders(Len(matched.branches)) :
           matched' = [op |-> "rewrite", by |-> "Eraser", status |-> "Ok",
                       input |-> matched.branches,
                       branches |-> collect_hashed(matched.branches, f)]
    /\ UNCHANGED <<written, ctxVars, lexerVars, typeVars, histVars, errVars,
                   astVars, precVars,
                   lateVars>>

MatchNext == ParseMatch \/ EngineRewriteMatch \/ EraserRewriteMatch

MatchSpec == MatchInit /\ [][MatchNext]_vars

\* the place of the first pattern of the kind among the written ones
FirstAt(pairs, kind) ==
    CHOOSE k \in 1..Len(pairs) :
        /\ pairs[k].pattern.kind = kind
        /\ \A m \in 1..(k - 1) : pairs[m].pattern.kind # kind

C18_EntryPerPattern ==
    matched.op = "parse" =>
        LET pairs == flat_map(written, 1)
            b == matched.branches
        IN  /\ Len(b) = Len(pairs)
            /\ \A k \in 1..Len(b) :
                   /\ b[k].pattern.kind = pairs[k].pattern.kind
                   /\ b[k].expr = pairs[k].expr

\* C19: a match expression rewritten by the inference engine or by the
\* Eraser has its branches in the order of the input's branches.
C19_RewriteKeepsOrder ==
    (matched.op = "rewrite" /\ matched.status = "Ok") =>
        matched.branches = matched.input

(***************************************************************************)
(* kali-parse/src/expr.rs, kali-parse/src/common.rs,                       *)
(* kali-parse/src/lib.rs: the grouping of binary operators.  An expression *)
(* is written as atom op atom ... op atom; the i-th atom is Atom(i) and    *)
(* ops[i] stands between the atoms i and i + 1.  A parser reads from an    *)
(* atom on and returns the tree it built and the place of the first        *)
(* operator it has not read.                                               *)
(***************************************************************************)
MaxOps == 3

BinaryOps ==
    {"Exponentiate", "Multiply", "Divide", "Modulo", "Add", "Subtract",
     "LogicalAnd", "LogicalOr", "LessThan", "LessThanOrEqual", "GreaterThan",
     "GreaterThanOrEqual", "Equal", "NotEqual", "Cons"}

Atom(i) == [e |-> "Atom", at |-> i]

\* BinaryOp { kind, span }
BinaryOp(kind, at) == [kind |-> kind, at |-> at]

Parsed(t, pos) == [tree |-> t, pos |-> pos]

\* the operators each parser of the chain cons .. exp selects
ChainOps(level) ==
    CASE level = 1 -> {"Cons"}
      [] level = 2 -> {"Equal", "NotEqual"}
      [] level = 3 -> {"LessThan", "LessThanOrEqual", "GreaterThan",
                       "GreaterThanOrEqual"}
      [] level = 4 -> {"LogicalAnd", "LogicalOr"}
      [] level = 5 -> {"Add", "Subtract"}
      [] level = 6 -> {"Multiply", "Divide", "Modulo"}
      [] level = 7 -> {"Exponentiate"}

RECURSIVE chain(_, _, _)
RECURSIVE operationl(_, _, _, _)
RECURSIVE operationr(_, _)

\* ParserExt::operationl: self.foldl(op.then(self).repeated(), f), after
\* the first operand
operationl(ops, level, acc, pos) ==
    IF pos <= Len(ops) /\ ops[pos] \in ChainOps(level)
    THEN The({operationl(ops, level,
                         BinaryExpr(acc, BinaryOp(ops[pos], pos), r.tree),
                         r.pos) :
              r \in {chain(ops, level + 1, pos + 1)}})
    ELSE Parsed(acc, pos)

\* a cons parser that folds from the left
operationr_foldl(ops, pos) ==
    The({operationl(ops, 1, first.tree, first.pos) :
         first \in {chain(ops, 2, pos)}})

\* ParserExt::operationr: self.then(op).repeated().foldr(self, f)
operationr(ops, pos) ==
    The({IF first.pos <= Len(ops) /\ ops[first.pos] \in ChainOps(1)
         THEN The({Parsed(BinaryExpr(first.tree,
                                     BinaryOp(ops[first.pos], first.pos),
                                     rest.tree), rest.pos) :
                   rest \in {operationr(ops, first.pos + 1)}})
         ELSE first :
         first \in {chain(ops, 2, pos)}})

\* expr: the parsers cons, equality, comparison, logical, add, mul, exp and
\* call, each built on the next
chain(ops, level, pos) ==
    IF level > 7 THEN Parsed(Atom(pos), pos)
    ELSE IF level = 1 THEN operationr(ops, pos)
    ELSE The({operationl(ops, level, first.tree, first.pos) :
              first \in {chain(ops, level + 1, pos)}})

\* the infix table of parser: left(n) and right(n)
Power(kind) ==
    CASE kind = "Exponentiate" -> [assoc |-> "right", n |-> 9]
      [] kind \in {"Multiply", "Divide", "Modulo"} ->
             [assoc |-> "left", n |-> 8]
      [] kind \in {"Add", "Subtract"} -> [assoc |-> "left", n |-> 7]
      [] kind \in {"LessThanOrEqual", "GreaterThanOrEqual", "LessThan",
                   "GreaterThan"} -> [assoc |-> "left", n |-> 6]
      [] kind \in {"Equal", "NotEqual"} -> [assoc |-> "left", n |-> 5]
      [] kind = "LogicalAnd" -> [assoc |-> "left", n |-> 4]
      [] kind = "LogicalOr" -> [assoc |-> "left", n |-> 3]
      [] kind = "Cons" -> [assoc |-> "right", n |-> 2]

\* Associativity::left_power
left_power(a) == IF a.assoc = "left" THEN a.n * 2 ELSE a.n * 2 + 1

\* Associativity::right_power
right_power(a) == IF a.assoc = "left" THEN a.n * 2 + 1 ELSE a.n * 2

RECURSIVE pratt(_, _, _, _)
\* atom.pratt(..): the loop over the infix operators that bind at least as
\* tightly as min_power, lhs being the tree read so far
pratt(ops, min_power, lhs, pos) ==
    IF pos <= Len(ops) /\ left_power(Power(ops[pos])) >= min_power
    THEN The({pratt(ops, min_power,
                    BinaryExpr(lhs, BinaryOp(ops[pos], pos), r.tree), r.pos) :
              r \in {pratt(ops, right_power(Power(ops[pos])),
                           Atom(pos + 1), pos + 1)}})
    ELSE Parsed(lhs, pos)

\* Pattern::Cons(a, b)
PatternCons(a, b) == [e |-> "Cons", lhs |-> a, rhs |-> b]

RECURSIVE pattern(_, _)
\* pattern: atom.then_ignore(just(Token::OpCons)).repeated()
\*     .foldr(atom, Pattern::Cons), from the atom pos on
pattern(ops, pos) ==
    IF pos <= Len(ops) /\ ops[pos] = "Cons"
    THEN The({Parsed(PatternCons(Atom(pos), rest.tree), rest.pos) :
              rest \in {pattern(ops, pos + 1)}})
    ELSE Parsed(Atom(pos), pos)

PrecInit ==
    /\ source_ops \in UNION {[1..n -> BinaryOps] : n \in 0..MaxOps}
    /\ parsed = [op |-> "none"]
    /\ LexerIdle
    /\ LateIdle
    /\ TypeIdle
    /\ CtxIdle
    /\ HistIdle
    /\ ErrIdle
    /\ AstIdle
    /\ MatchIdle

\* expr (kali-parse/src/expr.rs)
ParseChain ==
    /\ parsed.op = "none"
    /\ \E r \in {chain(source_ops, 1, 1)} :
           parsed' = [op |-> "parse", by |-> "expr", tree |-> r.tree,
                      rest |-> r.pos]
    /\ UNCHANGED <<source_ops, lexerVars, typeVars, ctxVars, histVars,
                   errVars, astVars, matchVars,
                   lateVars>>

\* parser (kali-parse/src/lib.rs)
ParsePratt ==
    /\ parsed.op = "none"
    /\ \E r \in {pratt(source_ops, 0, Atom(1), 1)} :
           parsed' = [op |-> "parse", by |-> "parser", tree |-> r.tree,
                      rest |-> r.pos]
    /\ UNCHANGED <<source_ops, lexerVars, typeVars, ctxVars, histVars,
                   errVars, astVars, matchVars,
                   lateVars>>

\* pattern (kali-parse/src/pattern.rs): the only operator of a pattern is ::
ParsePattern ==
    /\ parsed.op = "none"
    /\ \A k \in 1..Len(source_ops) : source_ops[k] = "Cons"
    /\ \E r \in {pattern(source_ops, 1)} :
           parsed' = [op |-> "parse", by |-> "pattern", tree |-> r.tree,
                      rest |-> r.pos]
    /\ UNCHANGED <<source_ops, lexerVars, typeVars, ctxVars, histVars,
                   errVars, astVars, matchVars,
                   lateVars>>

PrecNext == ParseChain \/ ParsePratt \/ ParsePattern

PrecSpec == PrecInit /\ [][PrecNext]_vars

\* the published level of an operator
Level(kind) == CHOOSE level \in 1..7 : kind \in ChainOps(level)

RECURSIVE Subtrees(_)
Subtrees(t) ==
    IF t.e = "Atom" THEN {t}
    ELSE {t} \cup Subtrees(t.lhs) \cup Subtrees(t.rhs)

\* the operator at the place inner is applied inside an operand of the
\* operator at the place outer
Inside(t, inner, outer) ==
    \E o \in Subtrees(t) :
        /\ o.e = "BinaryExpr"
        /\ o.operator.at = outer
        /\ \E i \in Subtrees(o.lhs) \cup Subtrees(o.rhs) :
               i.e = "BinaryExpr" /\ i.operator.at = inner

\* C20: wherever two operators of different published levels meet at an
\* operand, the one of the higher level binds tighter: it is applied inside
\* an operand of the other.
C20_HigherBindsTighter ==
    parsed.op = "parse" =>
        \A k \in 1..(Len(source_ops) - 1) :
            /\ Level(source_ops[k]) > Level(source_ops[k + 1])
                   => Inside(parsed.tree, k, k + 1)
            /\ Level(source_ops[k]) < Level(source_ops[k + 1])
                   => Inside(parsed.tree, k + 1, k)

RECURSIVE RightNested(_, _, _)
\* the tree is a :: (b :: (c ...)) over the atoms i .. n
RightNested(t, i, n) ==
    IF i = n THEN t = Atom(n)
    ELSE /\ t.e # "Atom"
         /\ t.lhs = Atom(i)
         /\ RightNested(t.rhs, i + 1, n)

RECURSIVE LeftNested(_, _)
\* the tree is ((a == b) == c) ... over the atoms 1 .. n
LeftNested(t, n) ==
    IF n = 1 THEN t = Atom(1)
    ELSE /\ t.e # "Atom"
         /\ t.rhs = Atom(n)
         /\ LeftNested(t.lhs, n - 1)

\* the expression is a chain of one operator
ChainOf(kinds) ==
    /\ source_ops # <<>>
    /\ \A k \in 1..Len(source_ops) : source_ops[k] \in kinds
    /\ \A k \in 1..Len(source_ops) : source_ops[k] = source_ops[1]

IntBits == 8
MaxDigits == 3

U64Max == 2 ^ IntBits - 1
I64Max == 2 ^ (IntBits - 1) - 1

Prefixes == {"", "0b", "0o", "0d", "0x"}

\* the base a prefix stands for
Radix(prefix) ==
    CASE prefix = "0x" -> 16
      [] prefix = "0b" -> 2
      [] prefix = "0o" -> 8
      [] prefix = "0d" -> 10
      [] prefix = "" -> 10

DigitChars == {"0", "1", "7", "8", "9", "f"}

\* char::to_digit
DigitValue(c) ==
    CASE c = "0" -> 0
      [] c = "1" -> 1
      [] c = "7" -> 7
      [] c = "8" -> 8
      [] c = "9" -> 9
      [] c = "f" -> 15

IsDigit(c, radix) == c \in DigitChars /\ DigitValue(c) < radix

Parsed64(v) == [ok |-> TRUE, value |-> v]
ParseIntError(kind) == [ok |-> FALSE, kind |-> kind]

RECURSIVE from_digits(_, _, _, _, _)
\* the digit loop of from_str_radix, from the i-th character on
from_digits(src, i, radix, acc, max) ==
    IF i > Len(src) THEN Parsed64(acc)
    ELSE IF ~IsDigit(src[i], radix) THEN ParseIntError("InvalidDigit")
    ELSE IF acc * radix + DigitValue(src[i]) > max
    THEN ParseIntError("PosOverflow")
    ELSE from_digits(src, i + 1, radix,
                     acc * radix + DigitValue(src[i]), max)

\* u64::from_str_radix and i64::from_str_radix of a string without a sign
from_str_radix(src, radix, max) ==
    IF src = <<>> THEN ParseIntError("Empty")
    ELSE from_digits(src, 1, radix, 0, max)

\* str::parse::<i64> of - followed by src: the most negative value is
\* accepted
parse_negative(src) ==
    The({IF r.ok THEN Parsed64(0 - r.value)
         ELSE IF r.kind = "PosOverflow" THEN ParseIntError("NegOverflow")
         ELSE r :
         r \in {from_str_radix(src, 10, I64Max + 1)}})

\* str::replace("_", "")
without_underscores(src) == SelectSeq(src, LAMBDA c : c # "_")

\* chumsky digits(base): the leading run of digits of the base
digits(src, radix) ==
    SubSeq(src, 1,
           IF \A i \in 1..Len(src) : IsDigit(src[i], radix) THEN Len(src)
           ELSE (CHOOSE i \in 1..Len(src) :
                    /\ ~IsDigit(src[i], radix)
                    /\ \A j \in 1..(i - 1) : IsDigit(src[j], radix)) - 1)

\* prefixed_natural
prefixed_natural(l) ==
    from_str_radix(without_underscores(l.digits), Radix(l.prefix), U64Max)

\* prefixed_integer
prefixed_integer(l) ==
    The({IF r.ok THEN Parsed64(IF l.negative THEN 0 - r.value ELSE r.value)
         ELSE r :
         r \in {from_str_radix(without_underscores(l.digits),
                               Radix(l.prefix), I64Max)}})

\* the callbacks of Token::LitNatural and Token::LitInteger; .ok() drops
\* the ParseIntError
lit_callback(l) ==
    IF l.negative
    THEN IF l.prefix = "" THEN parse_negative(l.digits)
         ELSE prefixed_integer(l)
    ELSE IF l.prefix = "" THEN from_str_radix(l.digits, 10, U64Max)
         ELSE prefixed_natural(l)

\* the literals of the grammar with at most MaxDigits digits and separators
Literals ==
    {[negative |-> n, prefix |-> p, digits |-> d] :
        n \in BOOLEAN, p \in Prefixes,
        d \in UNION {[1..k -> DigitChars \cup {"_"}] : k \in 1..MaxDigits}}

ValidLiteral(l) ==
    /\ IsDigit(l.digits[1], Radix(l.prefix))
    /\ \A i \in 2..Len(l.digits) :
           l.digits[i] = "_" \/ IsDigit(l.digits[i], Radix(l.prefix))

IntInit ==
    /\ literal \in {l \in Literals : ValidLiteral(l)}
    /\ lexed = [op |-> "none"]
    /\ LexerIdle
    /\ TypeIdle
    /\ CtxIdle
    /\ HistIdle
    /\ ErrIdle
    /\ AstIdle
    /\ ParseIdle
    /\ PrintIdle
    /\ VmIdle
    /\ WalkIdle

\* int (kali-parse/src/literal/int.rs): the digits are read in base 10 and
\* the result is unwrapped
LexInt ==
    /\ lexed.op = "none"
    /\ \E r \in {from_str_radix(digits(literal.digits, Radix(literal.prefix)),
                                10, I64Max)} :
           lexed' = IF r.ok
                    THEN [op |-> "lex", by |-> "int", status |-> "Ok",
                          token |-> "Int",
                          value |-> IF literal.negative THEN 0 - r.value
                                    ELSE r.value]
                    ELSE [op |-> "lex", by |-> "int", status |-> "panic"]
    /\ UNCHANGED <<literal, lexerVars, typeVars, ctxVars, histVars, errVars,
                   astVars, parseVars, printVars, vmVars, walkVars>>

\* Lexer::next (kali-lalrpop/src/lexer.rs): a callback that returns None
\* makes the token the default LexicalError
LexToken ==
    /\ lexed.op = "none"
    /\ \E r \in {lit_callback(literal)} :
           lexed' = IF r.ok
                    THEN [op |-> "lex", by |-> "Lexer", status |-> "Ok",
                          token |-> IF literal.negative THEN "LitInteger"
                                    ELSE "LitNatural",
                          value |-> r.value]
                    ELSE [op |-> "lex", by |-> "Lexer", status |-> "Err",
                          error |-> "InvalidToken"]
    /\ UNCHANGED <<literal, lexerVars, typeVars, ctxVars, histVars, errVars,
                   astVars, parseVars, printVars, vmVars, walkVars>>

IntNext == LexInt \/ LexToken

IntSpec == IntInit /\ [][IntNext]_vars

RECURSIVE ValueIn(_, _, _)
\* the value of the digits up to the i-th read in the base
ValueIn(src, i, radix) ==
    IF i = 0 THEN 0
    ELSE ValueIn(src, i - 1, radix) * radix + DigitValue(src[i])

\* the value the literal denotes
Denoted(l) ==
    LET v == ValueIn(without_underscores(l.digits),
                     Len(without_underscores(l.digits)), Radix(l.prefix))
    IN  IF l.negative THEN 0 - v ELSE v

\* the value fits the type of the literal's token
Fits(l) ==
    IF l.negative THEN Denoted(l) >= 0 - (I64Max + 1)
    ELSE Denoted(l) <= U64Max

\* C22: a literal with a prefix that is made a token has the value of its
\* digits, separators removed, read in the base of the prefix, negated
\* after a leading -.
C22_ValueInBase ==
    (lexed.op = "lex" /\ lexed.status = "Ok" /\ literal.prefix # "") =>
        lexed.value = Denoted(literal)

\* C23: the Lexer makes a numeric token of every literal whose value fits
\* the token's integer type, and LexicalError::InvalidInteger of every
\* other.
C23_InvalidInteger ==
    (lexed.op = "lex" /\ lexed.by = "Lexer") =>
        IF Fits(literal) THEN lexed.status = "Ok"
        ELSE lexed.status = "Err" /\ lexed.error = "InvalidInteger"

\* C24: lexing a literal never panics.
C24_NeverPanics ==
    lexed.op = "lex" => lexed.status # "panic"

(***************************************************************************)
(* kali-print/src/lib.rs, kali-print/tests/expr.rs: printing an expression *)
(* and parsing the printed text.  The text is the sequence of its tokens;  *)
(* the i-th leaf of an expression, from the left, is the identifier or     *)
(* literal Atom(i) or the call Call(i).                                    *)
(***************************************************************************)
PrintOps == {"Add", "Multiply"}

\* Call { fun, args }, the i-th leaf
Call(i) == [e |-> "Call", at |-> i]

AtomToken(i) == [t |-> "Atom", at |-> i]
OpToken(kind) == [t |-> "Op", kind |-> kind]
KeywordToken(word) == [t |-> word]

RECURSIVE print(_)
\* Print for Expr: an identifier or literal writes itself, a binary
\* expression its operands around the operator, a conditional writes
\* "if c b else o", and a call writes nothing
print(e) ==
    CASE e.e = "Atom" -> <<AtomToken(e.at)>>
      [] e.e = "Call" -> <<>>
      [] e.e = "BinaryExpr" ->
             print(e.lhs) \o <<OpToken(e.operator.kind)>> \o print(e.rhs)
      [] e.e = "Conditional" ->
             <<KeywordToken("if")>> \o print(e.condition) \o print(e.body)
                 \o <<KeywordToken("else")>> \o print(e.otherwise)

\* the text is atom op atom .. op atom
Alternates(text) ==
    /\ Len(text) % 2 = 1
    /\ \A i \in 1..Len(text) :
           text[i].t = (IF i % 2 = 1 THEN "Atom" ELSE "Op")

\* expr applied to the whole text: the chain of binary operators over
\* atoms; a conditional needs the keyword then, and an operator needs an
\* operand on either side
parse_expr_str(text) ==
    IF Alternates(text)
    THEN The({[status |-> "Ok", expr |-> r.tree] :
              r \in {chain([k \in 1..(Len(text) \div 2) |-> text[2 * k].kind],
                           1, 1)}})
    ELSE [status |-> "Err"]

RECURSIVE PrintExprs(_, _)
\* the expressions over the leaves lo .. hi
PrintExprs(lo, hi) ==
    IF lo = hi THEN {Atom(lo), Call(lo)}
    ELSE UNION {{BinaryExpr(l, BinaryOp(k, m), r) :
                    l \in PrintExprs(lo, m), r \in PrintExprs(m + 1, hi),
                    k \in PrintOps} : m \in lo..(hi - 1)}

PrintInit ==
    /\ shown \in
           {[op |-> "expr", expr |-> e] :
               e \in UNION {PrintExprs(1, n + 1) : n \in 0..MaxOps}
                       \cup {Conditional(Atom(1), Atom(2), Atom(3))}}
    /\ LexerIdle
    /\ TypeIdle
    /\ CtxIdle
    /\ HistIdle
    /\ ErrIdle
    /\ AstIdle
    /\ ParseIdle
    /\ IntIdle
    /\ VmIdle
    /\ WalkIdle

\* print_to_string(&expr)
PrintExpr ==
    /\ shown.op = "expr"
    /\ shown' = [op |-> "print", expr |-> shown.expr,
                 text |-> print(shown.expr)]
    /\ UNCHANGED <<lexerVars, typeVars, ctxVars, histVars, errVars, astVars,
                   parseVars, intVars, vmVars, walkVars>>

\* parse_expr_str(&formatted)
ParseText ==
    /\ shown.op = "print"
    /\ shown' = [op |-> "parse", expr |-> shown.expr, text |-> shown.text,
                 parsed |-> parse_expr_str(shown.text)]
    /\ UNCHANGED <<lexerVars, typeVars, ctxVars, histVars, errVars, astVars,
                   parseVars, intVars, vmVars, walkVars>>

PrintNext == PrintExpr \/ ParseText

PrintSpec == PrintInit /\ [][PrintNext]_vars

\* C25: printing an expression and parsing the printed text gives back
\* the same expression.
C25_RoundTrip ==
    shown.op = "parse" =>
        /\ shown.parsed.status = "Ok"
        /\ shown.parsed.expr = shown.expr

(***************************************************************************)
(* kali-ir/src/lib.rs and kali-vm/src/lib.rs: lowering an expression to    *)
(* stack instructions and running them                                     *)
(***************************************************************************)
MaxExprOps == 2

LiteralInt(a) == [k |-> "Int", v |-> a]
LiteralBool(a) == [k |-> "Bool", v |-> a]
LiteralString(a) == [k |-> "String", v |-> a]
ExprLiteral(literal_) == [e |-> "Literal", literal |-> literal_]
UnaryExpr(op, inner) == [e |-> "UnaryExpr", operator |-> op, inner |-> inner]

PushLiteral(literal_) == [i |-> "PushLiteral", literal |-> literal_]
BinaryOperator(op) == [i |-> "BinaryOp", operator |-> op]
UnaryOperator(op) == [i |-> "UnaryOp", operator |-> op]
Jump(target) == [i |-> "Jump", target |-> target]
ConditionalJump(target) == [i |-> "ConditionalJump", target |-> target]

\* Compile for Expr, BinaryExpr, UnaryExpr and Conditional: the unit's
\* instructions after the expression is compiled onto them; instruction k
\* of the code is element k + 1 of the sequence
RECURSIVE compile(_, _)
compile(e, unit) ==
    CASE e.e = "Literal" -> Append(unit, PushLiteral(e.literal))
      [] e.e = "BinaryExpr" ->
            Append(compile(e.rhs, compile(e.lhs, unit)),
                   BinaryOperator(e.operator))
      [] e.e = "UnaryExpr" ->
            Append(compile(e.inner, unit), UnaryOperator(e.operator))
      [] e.e = "Conditional" ->
            LET condition == compile(e.condition, unit)
                jump_idx == Len(condition)
                jumps == condition \o <<ConditionalJump(0), Jump(0)>>
                body_idx == Len(jumps)
                body == compile(e.body, jumps)
                body_end_idx == Len(body)
                otherwise_idx == body_end_idx + 1
                otherwise == compile(e.otherwise, Append(body, Jump(0)))
                otherwise_end_idx == Len(otherwise)
            IN  [otherwise EXCEPT
                    ![jump_idx + 1] = ConditionalJump(body_idx),
                    ![jump_idx + 2] = Jump(otherwise_idx),
                    ![body_end_idx + 1] = Jump(otherwise_end_idx)]

\* an i64 result: in range it is the value; out of range the build with
\* overflow checks panics and the build without them wraps
Panic == [panic |-> TRUE]
Value(literal_) == [panic |-> FALSE, value |-> literal_]
wrapping(n) ==
    ((n + 2 ^ (IntBits - 1)) % 2 ^ IntBits) - 2 ^ (IntBits - 1)
overflowing(n) ==
    IF -(I64Max + 1) <= n /\ n <= I64Max
    THEN {Value(LiteralInt(n))}
    ELSE {Panic, Value(LiteralInt(wrapping(n)))}

\* i64 division, truncating towards zero
quotient(a, b) ==
    IF (a < 0) = (b < 0)
    THEN (IF a < 0 THEN -a ELSE a) \div (IF b < 0 THEN -b ELSE b)
    ELSE -((IF a < 0 THEN -a ELSE a) \div (IF b < 0 THEN -b ELSE b))

\* Execute for Operator::BinaryOp on the popped a and b: the results the
\* build can produce
binary_op(op, a, b) ==
    CASE op = "Add" ->
            IF a.k = "Int" /\ b.k = "Int"
            THEN overflowing(a.v + b.v) ELSE {Panic}
      [] op = "Subtract" ->
            IF a.k = "Int" /\ b.k = "Int"
            THEN overflowing(a.v - b.v) ELSE {Panic}
      [] op = "Divide" ->
            IF a.k = "Int" /\ b.k = "Int" /\ b.v # 0
               /\ ~(a.v = -(I64Max + 1) /\ b.v = -1)
            THEN {Value(LiteralInt(quotient(a.v, b.v)))} ELSE {Panic}
      [] op = "Equal" ->
            IF a.k = b.k THEN {Value(LiteralBool(a.v = b.v))} ELSE {Panic}
      [] op = "LessThan" ->
            IF a.k = "Int" /\ b.k = "Int"
            THEN {Value(LiteralBool(a.v < b.v))} ELSE {Panic}
      [] op = "LogicalAnd" ->
            IF a.k = "Bool" /\ b.k = "Bool"
            THEN {Value(LiteralBool(a.v /\ b.v))} ELSE {Panic}
      [] op = "Concatenate" -> {Panic}

\* Execute for Operator::UnaryOp on the popped a
unary_op(op, a) ==
    CASE op = "Negate" ->
            IF a.k = "Int" THEN overflowing(-a.v) ELSE {Panic}
      [] op = "LogicalNot" ->
            IF a.k = "Bool" THEN {Value(LiteralBool(~a.v))} ELSE {Panic}

Popped(stack, n) == SubSeq(stack, 1, Len(stack) - n)
Top(stack, n) == stack[Len(stack) - n]

\* a panic unwinds out of run()
panicked(rt) == [rt EXCEPT !.status = "panic"]

\* Execute for Operator: the runtimes the instruction can leave
execute(operator_, rt) ==
    CASE operator_.i = "PushLiteral" ->
            {[rt EXCEPT !.stack = Append(@, operator_.literal)]}
      [] operator_.i = "BinaryOp" ->
            IF Len(rt.stack) < 2
            THEN {panicked(rt)}
            ELSE {IF r.panic
                  THEN panicked(rt)
                  ELSE [rt EXCEPT
                           !.stack = Append(Popped(rt.stack, 2), r.value)] :
                  r \in binary_op(operator_.operator, Top(rt.stack, 1),
                                  Top(rt.stack, 0))}
      [] operator_.i = "UnaryOp" ->
            IF Len(rt.stack) < 1
            THEN {panicked(rt)}
            ELSE {IF r.panic
                  THEN panicked(rt)
                  ELSE [rt EXCEPT
                           !.stack = Append(Popped(rt.stack, 1), r.value)] :
                  r \in unary_op(operator_.operator, Top(rt.stack, 0))}
      [] operator_.i = "Jump" ->
            {[rt EXCEPT !.pc = operator_.target - 1]}
      [] operator_.i = "ConditionalJump" ->
            IF Len(rt.stack) < 1
            THEN {panicked(rt)}
            ELSE {IF Top(rt.stack, 0) = LiteralBool(TRUE)
                  THEN [rt EXCEPT !.stack = Popped(rt.stack, 1),
                                  !.pc = operator_.target - 1]
                  ELSE [rt EXCEPT !.stack = Popped(rt.stack, 1)]}

\* Runtime::new, with the set of instructions executed so far
NewRuntime ==
    [op |-> "run", stack |-> <<>>, pc |-> 0, status |-> "ok",
     executed |-> {}]

\* the literals, operators and expressions that are compiled
VmLiterals ==
    {LiteralInt(0), LiteralInt(1), LiteralInt(I64Max), LiteralBool(TRUE),
     LiteralBool(FALSE), LiteralString("a")}
VmBinaryOps == {"Add", "Divide", "Equal", "LogicalAnd", "Concatenate"}
VmUnaryOps == {"Negate", "LogicalNot"}

\* the type of an expression whose operands are well typed, else "Error"
RECURSIVE TypeOf(_)
TypeOf(e) ==
    CASE e.e = "Literal" -> e.literal.k
      [] e.e = "UnaryExpr" ->
            IF e.operator = "Negate" /\ TypeOf(e.inner) = "Int" THEN "Int"
            ELSE IF e.operator = "LogicalNot" /\ TypeOf(e.inner) = "Bool"
            THEN "Bool" ELSE "Error"
      [] e.e = "BinaryExpr" ->
            IF TypeOf(e.lhs) # TypeOf(e.rhs) \/ TypeOf(e.lhs) = "Error"
            THEN "Error"
            ELSE (CASE e.operator \in {"Add", "Subtract", "Divide"} ->
                        IF TypeOf(e.lhs) = "Int" THEN "Int" ELSE "Error"
                   [] e.operator = "LessThan" ->
                        IF TypeOf(e.lhs) = "Int" THEN "Bool" ELSE "Error"
                   [] e.operator = "Equal" -> "Bool"
                   [] e.operator = "LogicalAnd" ->
                        IF TypeOf(e.lhs) = "Bool" THEN "Bool" ELSE "Error"
                   [] e.operator = "Concatenate" ->
                        IF TypeOf(e.lhs) = "String" THEN "String"
                        ELSE "Error")
      [] e.e = "Conditional" ->
            IF TypeOf(e.condition) = "Bool"
               /\ TypeOf(e.body) = TypeOf(e.otherwise)
            THEN TypeOf(e.body) ELSE "Error"

\* the well-typed expressions with exactly n operators and conditionals
RECURSIVE VmExprs(_)
VmExprs(n) ==
    IF n = 0
    THEN {ExprLiteral(l) : l \in VmLiterals}
    ELSE {e \in
            {UnaryExpr(op, i) : op \in VmUnaryOps, i \in VmExprs(n - 1)}
            \cup UNION {{BinaryExpr(l, op, r) :
                            op \in VmBinaryOps, l \in VmExprs(k),
                            r \in VmExprs(n - 1 - k)} : k \in 0..(n - 1)}
            \cup UNION {{Conditional(c, b, o) :
                            c \in VmExprs(k[1]), b \in VmExprs(k[2]),
                            o \in VmExprs(n - 1 - k[1] - k[2])} :
                        k \in {j \in (0..(n - 1)) \X (0..(n - 1)) :
                                  j[1] + j[2] <= n - 1}} :
          TypeOf(e) # "Error"}

VmInit ==
    /\ code \in {[op |-> "expr", expr |-> e] :
                    e \in UNION {VmExprs(n) : n \in 0..MaxExprOps}}
    /\ machine = [op |-> "none"]
    /\ LexerIdle
    /\ TypeIdle
    /\ CtxIdle
    /\ HistIdle
    /\ ErrIdle
    /\ AstIdle
    /\ ParseIdle
    /\ IntIdle
    /\ PrintIdle
    /\ WalkIdle

\* expr.compile(&mut unit) on a new unit, and Runtime::new on its
\* instructions
Compile ==
    /\ code.op = "expr"
    /\ code' = [op |-> "compiled", expr |-> code.expr,
                instructions |-> compile(code.expr, <<>>)]
    /\ machine' = NewRuntime
    /\ UNCHANGED <<lexerVars, typeVars, ctxVars, histVars, errVars, astVars,
                   parseVars, intVars, printVars, walkVars>>

\* one turn of the loop of Runtime::run: Runtime::step
Step ==
    /\ machine.op = "run"
    /\ machine.status = "ok"
    /\ machine.pc < Len(code.instructions)
    /\ \E rt \in execute(code.instructions[machine.pc + 1], machine) :
           machine' = IF rt.status = "panic"
                      THEN [rt EXCEPT !.executed = @ \cup {machine.pc}]
                      ELSE [rt EXCEPT !.pc = @ + 1,
                                      !.executed = @ \cup {machine.pc}]
    /\ UNCHANGED <<lexerVars, typeVars, ctxVars, histVars, errVars, astVars,
                   parseVars, intVars, printVars, walkVars, code>>

VmNext == Compile \/ Step

VmSpec == VmInit /\ [][VmNext]_vars

\* the number of instructions an expression compiles to
RECURSIVE Size(_)
Size(e) ==
    CASE e.e = "Literal" -> 1
      [] e.e = "UnaryExpr" -> Size(e.inner) + 1
      [] e.e = "BinaryExpr" -> Size(e.lhs) + Size(e.rhs) + 1
      [] e.e = "Conditional" ->
            Size(e.condition) + Size(e.body) + Size(e.otherwise) + 3

\* whether a condition is true, by the meaning of the operators
RECURSIVE Meaning(_)
Meaning(e) ==
    CASE e.e = "Literal" -> e.literal.v
      [] e.e = "UnaryExpr" ->
            IF e.operator = "Negate" THEN -Meaning(e.inner)
            ELSE ~Meaning(e.inner)
      [] e.e = "BinaryExpr" ->
            (CASE e.operator = "Add" -> Meaning(e.lhs) + Meaning(e.rhs)
              [] e.operator = "Divide" ->
                    IF Meaning(e.rhs) = 0 THEN 0
                    ELSE quotient(Meaning(e.lhs), Meaning(e.rhs))
              [] e.operator = "Equal" -> Meaning(e.lhs) = Meaning(e.rhs)
              [] e.operator = "LogicalAnd" ->
                    Meaning(e.lhs) /\ Meaning(e.rhs)
              [] e.operator = "Concatenate" -> "a")
      [] e.e = "Conditional" ->
            IF Meaning(e.condition) THEN Meaning(e.body)
            ELSE Meaning(e.otherwise)

\* the instructions of an expression compiled at base that belong to the
\* selected branches
RECURSIVE Selected(_, _)
Selected(e, base) ==
    CASE e.e = "Literal" -> {base}
      [] e.e = "UnaryExpr" ->
            Selected(e.inner, base) \cup {base + Size(e.inner)}
      [] e.e = "BinaryExpr" ->
            Selected(e.lhs, base)
            \cup Selected(e.rhs, base + Size(e.lhs))
            \cup {base + Size(e.lhs) + Size(e.rhs)}
      [] e.e = "Conditional" ->
            LET jump_idx == base + Size(e.condition)
                body_idx == jump_idx + 2
                body_end_idx == body_idx + Size(e.body)
            IN  Selected(e.condition, base) \cup {jump_idx}
                \cup IF Meaning(e.condition)
                     THEN Selected(e.body, body_idx) \cup {body_end_idx}
                     ELSE {jump_idx + 1}
                          \cup Selected(e.otherwise, body_end_idx + 1)

\* run() is over: the loop has ended or a panic has unwound out of it
RunOver ==
    /\ machine.op = "run"
    /\ ~(machine.status = "ok" /\ machine.pc < Len(code.instructions))

\* C29: running the compiled instructions of a well-typed expression from
\* pc 0 with an empty stack halts with pc equal to the instruction count
\* and exactly one value on the stack, having executed the instructions of
\* only the selected branch of each conditional.
C29_HaltsWithOneValue ==
    RunOver =>
        /\ machine.status = "ok"
        /\ machine.pc = Len(code.instructions)
        /\ Len(machine.stack) = 1
        /\ machine.executed = Selected(code.expr, 0)

(***************************************************************************)
(* kali-ast/src/visit.rs: the Walker over a module, with a visitor that    *)
(* records its calls and always returns Ok                                 *)
(***************************************************************************)
MaxItems == 2

WalkOrders == {"PreOrder", "PostOrder"}

\* one call of a Visitor method on the node at a place of the tree
Visited(method, node) == [v |-> method, at |-> node.at]

\* if let WalkOrder::PreOrder = self.order { visitor.visit_...(node)?; }
pre_order(order, method, node) ==
    IF order = "PreOrder" THEN <<Visited(method, node)>> ELSE <<>>

\* if let WalkOrder::PostOrder = self.order { visitor.visit_...(node)?; }
post_order(order, method, node) ==
    IF order = "PostOrder" THEN <<Visited(method, node)>> ELSE <<>>

\* Walker::walk_ident
walk_ident(order, ident) == <<Visited("ident", ident)>>

\* Walker::walk_destructor
walk_destructor(order, destructor) ==
    pre_order(order, "destructor", destructor)
    \o post_order(order, "destructor", destructor)

\* Walker::walk_pattern
walk_pattern(order, pattern_) ==
    pre_order(order, "pattern", pattern_)
    \o post_order(order, "pattern", pattern_)

\* Walker::walk_import_tree and its loop over a list of trees; an optional
\* alias is a sequence of at most one identifier
RECURSIVE walk_import_tree(_, _)
RECURSIVE walk_import_trees(_, _)
walk_import_tree(order, import_tree) ==
    pre_order(order, "import_tree", import_tree)
    \o (CASE import_tree.kind = "Item" ->
                <<Visited("ident", import_tree.name)>>
                \o [i \in 1..Len(import_tree.alias) |->
                       Visited("ident", import_tree.alias[i])]
          [] import_tree.kind = "Segment" ->
                <<Visited("ident", import_tree.name)>>
                \o walk_import_tree(order, import_tree.child)
          [] import_tree.kind = "Glob" ->
                <<Visited("import_tree", import_tree)>>
          [] import_tree.kind = "List" ->
                walk_import_trees(order, import_tree.trees))
    \o post_order(order, "import_tree", import_tree)
walk_import_trees(order, trees) ==
    IF trees = <<>> THEN <<>>
    ELSE walk_import_tree(order, Head(trees))
         \o walk_import_trees(order, Tail(trees))

\* Walker::walk_type and its loop over a list of types
RECURSIVE walk_type(_, _)
RECURSIVE walk_types(_, _)
walk_type(order, type_) ==
    pre_order(order, "type", type_)
    \o (CASE type_.kind = "Primitive" -> <<>>
          [] type_.kind = "Named" -> walk_ident(order, type_.ident)
          [] type_.kind = "Tuple" -> walk_types(order, type_.items)
          [] type_.kind = "List" -> walk_type(order, type_.inner)
          [] type_.kind = "Fn" ->
                walk_types(order, type_.params)
                \o walk_type(order, type_.return_type))
    \o post_order(order, "type", type_)
walk_types(order, types) ==
    IF types = <<>> THEN <<>>
    ELSE walk_type(order, Head(types)) \o walk_types(order, Tail(types))

\* Walker::walk_type_alias
walk_type_alias(order, type_alias) ==
    pre_order(order, "type_alias", type_alias)
    \o walk_type(order, type_alias.ty)
    \o post_order(order, "type_alias", type_alias)

\* Walker::walk_lambda_param and the loop over the parameters; an optional
\* type is a sequence of at most one type
walk_lambda_param(order, lambda_param) ==
    pre_order(order, "lambda_param", lambda_param)
    \o walk_destructor(order, lambda_param.parameter)
    \o walk_types(order, lambda_param.ty)
    \o post_order(order, "lambda_param", lambda_param)
RECURSIVE walk_lambda_params(_, _)
walk_lambda_params(order, params) ==
    IF params = <<>> THEN <<>>
    ELSE walk_lambda_param(order, Head(params))
         \o walk_lambda_params(order, Tail(params))

\* Walker::walk_expr, Walker::walk_match_arm and their loops; an optional
\* otherwise is a sequence of at most one expression
RECURSIVE walk_expr(_, _)
RECURSIVE walk_exprs(_, _)
RECURSIVE walk_match_arm(_, _)
RECURSIVE walk_match_arms(_, _)
walk_expr(order, expr) ==
    pre_order(order, "expr", expr)
    \o (CASE expr.kind = "Var" -> walk_ident(order, expr.ident)
          [] expr.kind = "Literal" -> <<>>
          [] expr.kind = "BinaryExpr" ->
                walk_expr(order, expr.lhs) \o walk_expr(order, expr.rhs)
          [] expr.kind = "UnaryExpr" -> walk_expr(order, expr.expr)
          [] expr.kind = "Tuple" -> walk_exprs(order, expr.exprs)
          [] expr.kind = "Conditional" ->
                walk_expr(order, expr.condition)
                \o walk_expr(order, expr.body)
                \o walk_exprs(order, expr.otherwise)
          [] expr.kind = "Match" ->
                walk_expr(order, expr.value)
                \o walk_match_arms(order, expr.arms)
          [] expr.kind = "Lambda" ->
                walk_lambda_params(order, expr.params)
                \o walk_types(order, expr.ret_ty)
                \o walk_expr(order, expr.body)
          [] expr.kind = "Call" ->
                walk_expr(order, expr.function)
                \o walk_exprs(order, expr.arguments))
    \o post_order(order, "expr", expr)
walk_exprs(order, exprs) ==
    IF exprs = <<>> THEN <<>>
    ELSE walk_expr(order, Head(exprs)) \o walk_exprs(order, Tail(exprs))
walk_match_arm(order, match_arm) ==
    walk_pattern(order, match_arm.pattern)
    \o walk_expr(order, match_arm.expr)
walk_match_arms(order, arms) ==
    IF arms = <<>> THEN <<>>
    ELSE walk_match_arm(order, Head(arms))
         \o walk_match_arms(order, Tail(arms))

\* Walker::walk_definition
walk_definition(order, definition) ==
    pre_order(order, "definition", definition)
    \o walk_destructor(order, definition.name)
    \o walk_expr(order, definition.expr)
    \o post_order(order, "definition", definition)

\* Walker::walk_item and the loop over the items of a module
walk_item(order, item) ==
    pre_order(order, "item", item)
    \o (CASE item.kind = "Import" ->
                walk_import_tree(order, item.import_tree)
          [] item.kind = "TypeAlias" ->
                walk_type_alias(order, item.type_alias)
          [] item.kind = "Definition" ->
                walk_definition(order, item.definition))
    \o post_order(order, "item", item)
RECURSIVE walk_items(_, _)
walk_items(order, items) ==
    IF items = <<>> THEN <<>>
    ELSE walk_item(order, Head(items)) \o walk_items(order, Tail(items))

\* Walker::walk_module
walk_module(order, module) ==
    pre_order(order, "module", module)
    \o walk_items(order, module.items)
    \o post_order(order, "module", module)

\* the trees that are walked: every node carries its place, the path of
\* child numbers from the module down to it
WalkIdent(at) == [at |-> at]
WalkDestructor(at) == [kind |-> "Var", at |-> at]

WalkImportLeaves(at) ==
    {[kind |-> "Item", at |-> at, name |-> WalkIdent(at \o <<1>>),
      alias |-> <<>>],
     [kind |-> "Item", at |-> at, name |-> WalkIdent(at \o <<1>>),
      alias |-> <<WalkIdent(at \o <<2>>)>>],
     [kind |-> "Glob", at |-> at]}
WalkImportTrees(at) ==
    WalkImportLeaves(at)
    \cup {[kind |-> "Segment", at |-> at, name |-> WalkIdent(at \o <<1>>),
           child |-> c] : c \in WalkImportLeaves(at \o <<2>>)}
    \cup {[kind |-> "List", at |-> at, trees |-> <<a, b>>] :
             a \in {t \in WalkImportLeaves(at \o <<1>>) : t.kind = "Item"},
             b \in {t \in WalkImportLeaves(at \o <<2>>) : t.kind = "Glob"}}

WalkTypeLeaves(at) ==
    {[kind |-> "Primitive", at |-> at],
     [kind |-> "Named", at |-> at, ident |-> WalkIdent(at \o <<1>>)]}
WalkTypes(at) ==
    WalkTypeLeaves(at)
    \cup {[kind |-> "List", at |-> at, inner |-> i] :
             i \in WalkTypeLeaves(at \o <<1>>)}
    \cup {[kind |-> "Fn", at |-> at,
           params |-> <<[kind |-> "Primitive", at |-> at \o <<1>>]>>,
           return_type |-> [kind |-> "Primitive", at |-> at \o <<2>>]],
          [kind |-> "Tuple", at |-> at,
           items |-> <<[kind |-> "Primitive", at |-> at \o <<1>>],
                       [kind |-> "Primitive", at |-> at \o <<2>>]>>]}

WalkPatternLeaves(at) ==
    {[kind |-> "Wildcard", at |-> at], [kind |-> "EmptyList", at |-> at]}
WalkPatterns(at) ==
    WalkPatternLeaves(at)
    \cup {[kind |-> "Cons", at |-> at,
           lhs |-> [kind |-> "Wildcard", at |-> at \o <<1>>],
           rhs |-> r] : r \in WalkPatternLeaves(at \o <<2>>)}

WalkLiteral(at) == [kind |-> "Literal", at |-> at]
WalkVar(at) ==
    [kind |-> "Var", at |-> at, ident |-> WalkIdent(at \o <<1>>)]
WalkLambdaParams(at) ==
    {[at |-> at, parameter |-> WalkDestructor(at \o <<1>>), ty |-> t] :
        t \in {<<>>, <<[kind |-> "Primitive", at |-> at \o <<2>>]>>}}
WalkExprs(at) ==
    {WalkLiteral(at), WalkVar(at),
     [kind |-> "BinaryExpr", at |-> at, lhs |-> WalkVar(at \o <<1>>),
      rhs |-> WalkLiteral(at \o <<2>>)],
     [kind |-> "UnaryExpr", at |-> at, expr |-> WalkLiteral(at \o <<1>>)],
     [kind |-> "Tuple", at |-> at,
      exprs |-> <<WalkLiteral(at \o <<1>>), WalkVar(at \o <<2>>)>>],
     [kind |-> "Call", at |-> at, function |-> WalkVar(at \o <<1>>),
      arguments |-> <<WalkLiteral(at \o <<2>>)>>]}
    \cup {[kind |-> "Conditional", at |-> at,
           condition |-> WalkVar(at \o <<1>>),
           body |-> WalkLiteral(at \o <<2>>), otherwise |-> o] :
             o \in {<<>>, <<WalkLiteral(at \o <<3>>)>>}}
    \cup {[kind |-> "Match", at |-> at, value |-> WalkVar(at \o <<1>>),
           arms |-> <<[at |-> at \o <<2>>, pattern |-> q,
                       expr |-> WalkLiteral(at \o <<2, 2>>)]>>] :
             q \in WalkPatterns(at \o <<2, 1>>)}
    \cup {[kind |-> "Lambda", at |-> at, params |-> <<q>>, ret_ty |-> <<>>,
           body |-> WalkVar(at \o <<3>>)] :
             q \in WalkLambdaParams(at \o <<1>>)}

WalkItems(at) ==
    {[kind |-> "Import", at |-> at, import_tree |-> t] :
        t \in WalkImportTrees(at \o <<1>>)}
    \cup {[kind |-> "TypeAlias", at |-> at,
           type_alias |-> [at |-> at \o <<1>>, ty |-> t]] :
             t \in WalkTypes(at \o <<1, 1>>)}
    \cup {[kind |-> "Definition", at |-> at,
           definition |-> [at |-> at \o <<1>>,
                           name |-> WalkDestructor(at \o <<1, 1>>),
                           expr |-> e]] :
             e \in WalkExprs(at \o <<1, 2>>)}

RECURSIVE WalkItemLists(_)
WalkItemLists(n) ==
    IF n = 0 THEN {<<>>}
    ELSE {Append(is, i) : is \in WalkItemLists(n - 1),
                          i \in WalkItems(<<n>>)}

WalkModules ==
    {[at |-> <<>>, items |-> is] :
        is \in UNION {WalkItemLists(n) : n \in 1..MaxItems}}

WalkInit ==
    /\ walk \in {[op |-> "new", order |-> o, module |-> m] :
                    o \in WalkOrders, m \in WalkModules}
    /\ code = [op |-> "none"]
    /\ machine = [op |-> "none"]
    /\ LexerIdle
    /\ TypeIdle
    /\ CtxIdle
    /\ HistIdle
    /\ ErrIdle
    /\ AstIdle
    /\ ParseIdle
    /\ IntIdle
    /\ PrintIdle

\* Walker { order }.walk_module(&mut visitor, &module)
WalkModule ==
    /\ walk.op = "new"
    /\ walk' = [op |-> "walked", order |-> walk.order,
                module |-> walk.module,
                visits |-> walk_module(walk.order, walk.module)]
    /\ UNCHANGED <<lexerVars, typeVars, ctxVars, histVars, errVars, astVars,
                   parseVars, intVars, printVars, vmVars>>

WalkNext == WalkModule

WalkSpec == WalkInit /\ [][WalkNext]_vars

\* the nodes of a tree, each with the Visitor method that is for it
RECURSIVE ImportTreeNodes(_)
ImportTreeNodes(t) ==
    {Visited("import_tree", t)}
    \cup (CASE t.kind = "Segment" -> ImportTreeNodes(t.child)
            [] t.kind = "List" ->
                  UNION {ImportTreeNodes(t.trees[i]) :
                            i \in 1..Len(t.trees)}
            [] OTHER -> {})

RECURSIVE TypeNodes(_)
TypeNodes(t) ==
    {Visited("type", t)}
    \cup (CASE t.kind = "Tuple" ->
                  UNION {TypeNodes(t.items[i]) : i \in 1..Len(t.items)}
            [] t.kind = "List" -> TypeNodes(t.inner)
            [] t.kind = "Fn" ->
                  UNION {TypeNodes(t.params[i]) : i \in 1..Len(t.params)}
                  \cup TypeNodes(t.return_type)
            [] OTHER -> {})

RECURSIVE PatternNodes(_)
PatternNodes(q) ==
    {Visited("pattern", q)}
    \cup (IF q.kind = "Cons"
          THEN PatternNodes(q.lhs) \cup PatternNodes(q.rhs)
          ELSE {})

LambdaParamNodes(q) ==
    {Visited("lambda_param", q)}
    \cup UNION {TypeNodes(q.ty[i]) : i \in 1..Len(q.ty)}

RECURSIVE ExprNodes(_)
ExprNodes(e) ==
    {Visited("expr", e)}
    \cup (CASE e.kind = "BinaryExpr" -> ExprNodes(e.lhs) \cup ExprNodes(e.rhs)
            [] e.kind = "UnaryExpr" -> ExprNodes(e.expr)
            [] e.kind = "Tuple" ->
                  UNION {ExprNodes(e.exprs[i]) : i \in 1..Len(e.exprs)}
            [] e.kind = "Conditional" ->
                  ExprNodes(e.condition) \cup ExprNodes(e.body)
                  \cup UNION {ExprNodes(e.otherwise[i]) :
                                 i \in 1..Len(e.otherwise)}
            [] e.kind = "Match" ->
                  ExprNodes(e.value)
                  \cup UNION {{Visited("match_arm", e.arms[i])}
                              \cup PatternNodes(e.arms[i].pattern)
                              \cup ExprNodes(e.arms[i].expr) :
                                 i \in 1..Len(e.arms)}
            [] e.kind = "Lambda" ->
                  UNION {LambdaParamNodes(e.params[i]) :
                            i \in 1..Len(e.params)}
                  \cup UNION {TypeNodes(e.ret_ty[i]) :
                                 i \in 1..Len(e.ret_ty)}
                  \cup ExprNodes(e.body)
            [] e.kind = "Call" ->
                  ExprNodes(e.function)
                  \cup UNION {ExprNodes(e.arguments[i]) :
                                 i \in 1..Len(e.arguments)}
            [] OTHER -> {})

ItemNodes(i) ==
    {Visited("item", i)}
    \cup (CASE i.kind = "Import" -> ImportTreeNodes(i.import_tree)
            [] i.kind = "TypeAlias" -> TypeNodes(i.type_alias.ty)
            [] i.kind = "Definition" -> ExprNodes(i.definition.expr))

WalkNodes(m) == UNION {ItemNodes(m.items[i]) : i \in 1..Len(m.items)}

Calls(visits, node) == Cardinality({i \in 1..Len(visits) : visits[i] = node})

\* C30: one walk of a module calls the visitor exactly once for every node
\* of the tree (items, import trees including globs, types, expressions,
\* match arms, patterns and their sub-patterns, lambda parameters), in
\* PreOrder and in PostOrder.
C30_EachNodeOnce ==
    walk.op = "walked" =>
        \A node \in WalkNodes(walk.module) : Calls(walk.visits, node) = 1

====
